---- MODULE Spec2Model ----
(***************************************************************************)
(* Model of opentmux's Go spawn queue (internal/spawnqueue/queue.go), of  *)
(* its session manager with the poll loop, and of the zombie reaper of the *)
(* Go daemon and of the TS plugin.                                         *)
(*                                                                         *)
(* Every goroutine is a process with a program counter.  One step is one   *)
(* critical section of q.mu, one callback invocation, one call or return   *)
(* of the spawn function, one sleep, or one channel operation.             *)
(***************************************************************************)
EXTENDS Integers, Sequences, FiniteSets, TLC

(* ------------------------------ bounds --------------------------------- *)
\* Number of Enqueue calls made in a run (each by its own goroutine).
MaxCalls == 2

(* --------------------------- configuration ----------------------------- *)
\* Options.StaleThreshold, in clock ticks (New replaces a value <= 0).
StaleThreshold == 1
\* Options.MaxRetries (New replaces a negative value by 0).
MaxRetries == 1

Callers == 1..MaxCalls
\* Session ids: as many as there are calls.
Sessions == 1..MaxCalls
\* Every Enqueue call creates at most one queueItem and starts at most one
\* worker goroutine.
ItemIds == 1..MaxCalls
Workers == 1..MaxCalls
\* Every OnSessionCreated call starts at most one pollLoop goroutine.
Pollers == 1..MaxCalls
\* CloseSession is called by the pollLoop goroutines and, closer 0, from
\* outside the poll loop.
Closers == 0..MaxCalls
\* The nil pointer.
None == 0

\* SpawnResult{Success: false}
Fail == [success |-> FALSE, paneId |-> 0]
\* SpawnResult{Success: true, PaneID: p}.  The spawn function makes a new
\* pane in every successful call; an item has at most one successful call,
\* so the pane of item i is numbered i.
Ok(p) == [success |-> TRUE, paneId |-> p]
\* A queueItem that is not allocated.  `age` stands for enqueuedAt: it is
\* time.Since(item.enqueuedAt), in ticks, counted up to StaleThreshold + 1
\* (the staleness test cannot tell greater ages apart).  `resolved` is not a
\* field of the code's queueItem: it records that resolveItem has run on it.
NoItem == [sessionID |-> None, age |-> 0, waiters |-> <<>>, resolved |-> FALSE]

\* sessionTimeout and sessionMissingGraceMs, in clock ticks.
SessionTimeout == 3
MissingGrace == 2

\* trackedSession.MissingSince == nil
NoTime == -1
\* No trackedSession under a key of m.sessions.  The three times are kept as
\* ages, in poll intervals: now - CreatedAt, now - LastSeenAt and
\* now - *MissingSince, counted up to SessionTimeout, 1 and MissingGrace.
NoSession == [paneId |-> None, created |-> 0, seen |-> 0, missing |-> NoTime]
\* SessionEvent; ids are session numbers and the empty id is None.
NoEvent == [type |-> "", id |-> None, parentId |-> ""]
\* The status types of a decoded /session/status body, per session id;
\* "absent" is an id without entry.
StatusTypes == {"absent", "busy", "idle"}
NoStatuses == [s \in Sessions |-> "absent"]

VARIABLES
  \* --- Queue fields
  items,             \* q.items: sequence of item ids
  pendingBySession,  \* q.pendingBySession: session -> item id or None
  inFlight,          \* q.inFlight: item id or None
  isProcessing,      \* q.isProcessing
  isShutdown,        \* q.isShutdown
  heap,              \* the queueItem objects: item id -> queueItem
  nItems,            \* number of queueItems allocated so far
  \* --- Enqueue goroutines
  cpc,               \* position of each caller
  cSession,          \* sessionID argument
  cPending,          \* local `pending`
  ch,                \* resultCh of each caller: buffered channel of capacity 1
  cres,              \* value returned by Enqueue
  \* --- processLoop goroutines
  wpc,               \* position of each worker goroutine
  wItem,             \* local `item`
  wAttempt,          \* local `attempt` of processItem
  wRes,              \* local `res` / `result`
  wPending,          \* local `pending`
  wLog,              \* the spawn calls made for `item`: retry count and outcome
  wStaleAtDeq,       \* `item` was over the stale threshold when dequeued
  \* --- Shutdown goroutine
  sdpc,              \* position of the Shutdown call
  toResolve,         \* local `toResolve`
  \* --- observations
  lastUpdate,        \* last value handed to OnQueueUpdate
  cItem,             \* item each caller's waiter was attached to
  cLate,             \* the caller attached to an item already resolved
  cVia,              \* how Enqueue returned: "chan", "ctx" or "shutdown"
  okSpawns,          \* per session: spawn calls that succeeded since the last
                     \* tracked session of that id was destroyed (up to 2)
  \* --- Manager fields
  cfgEnabled,        \* cfg.Enabled
  insideTmux,        \* tmux.IsInsideTmux() at construction
  sessions,          \* m.sessions: session id -> trackedSession or NoSession
  pending,           \* m.pending: set of session ids
  ticker,            \* m.ticker != nil
  \* --- OnSessionCreated goroutines (the goroutine of caller c)
  mpc,               \* position of each OnSessionCreated call
  mEvent,            \* the event argument
  mRet,              \* value returned by OnSessionCreated
  \* --- CloseSession calls, one at a time per closer
  clpc,              \* position of the CloseSession call
  clSession,         \* its sessionID argument
  clPane,            \* tracked.PaneID read under the lock
  closeCount,        \* per pane id: number of ClosePane invocations (up to 2)
  \* --- pollLoop goroutines
  ppc,               \* position of each pollLoop goroutine
  pFetch,            \* local `ok` of pollOnce: "none", "ok" or "failed"
  pStatuses,         \* local `statuses` of pollOnce
  pToClose,          \* local `toClose` of pollOnce, not yet closed
  pDecided,          \* the sessions, with their panes, marked in this tick
  pRemoved,          \* the sessions, with their panes, this tick removed
  \* --- the Cleanup call
  cupc,              \* position of the Cleanup call
  cuIds,             \* local `ids`, not yet closed
  mDone              \* m.done is closed

VARIABLES
  \* --- Reaper (Go) / ZombieReaper (TS) fields
  rImpl,             \* which daemon runs the scans: "go" or "ts"
  rMinChecks,        \* cfg.ReaperMinZombieChecks / options.minZombieChecks
  rGrace,            \* cfg.ReaperGracePeriodMs / options.gracePeriodMs, in ticks
  cands,             \* r.cands / candidates: pid -> candidate (count 0: none)
  \* --- the scan in progress
  spc,               \* position of the scan: "idle", "fetch" or "loop"
  sList,             \* the processes still to visit, in order
  sCmd,              \* TS: the command captured for each listed pid
  sPresent,          \* local `present` / `currentPids`
  sActive,           \* local `active` / `activeSessions`
  sNow,              \* Go: local `now`
  sFetch,            \* outcome of this scan's fetch: "none", "ok" or "failed"
  scans,             \* number of scans started
  \* --- the machine
  procs,             \* process table: pid -> command line ("" for no process)
  nStarts,           \* number of processes started
  rClock,            \* the wall clock, in ticks
  \* --- observations
  signalled,         \* command lines of the processes a scan sent a signal to
  hStreak,           \* per pid: scans in a row that classified it as zombie
  hFirst,            \* per pid: the time, as the scan read it, of the first
                     \* scan of that row
  killLog            \* for each signal: the row's length and age at that time

VARIABLES
  \* --- control.Service fields
  svManager,         \* s.manager: NoManager, or the manager Init stored last
  svOnStop,          \* s.onStop is not nil
  gauges,            \* s.metrics, shared with every manager of the service
  managers,          \* per manager sessionmanager.New returned: Cleanup calls
  spawned,           \* queue items (and panes) the managers created
  onStops,             \* the onStop goroutines: <<request, reason, ran>>
  \* --- the requests, numbered in the order they arrive
  reqpc,             \* position of each request's handler
  reqKind,           \* "init", "session", "shutdown" or "stats"
  reqReason,         \* req.Msg.GetReason() of a Shutdown request
  reqMgr,            \* local `manager`; for Init, s.manager as it found it
  reqResp            \* the response returned

VARIABLES
  \* --- tmux.ClosePane / closeTmuxPane
  cpImpl,            \* which implementation runs: "go" or "ts"
  cppc,              \* position of the call
  cpTodo,            \* the children of the loop not yet visited
  cpChild,           \* the child being waited for
  cpLog,             \* what the call did, in order: ps, signals, tmux commands
  cpRet,             \* the value returned: "none", TRUE or FALSE
  kids               \* the machine's processes: pid -> [cmd, parent, alive]

VARIABLES
  \* --- config.Config
  cfgs               \* a Config as read, followed by its value after each Normalize

VARIABLES
  \* --- ZombieReaper.reapAll
  servers,           \* the opencode servers: url -> [up, active sessions]
  rapc,              \* position of the call
  raProcs,           \* local `processes`
  raUrls,            \* the keys of `byUrl` not yet visited
  raActive,          \* local `activeSessions` of the group being visited
  raKills            \* the signals sent: pid, the process hit, the entry acted on

VARIABLES
  \* --- observations of the queue's channels and of repeated Shutdown calls
  sent,              \* per caller: results sent on (and closes of) its resultCh
  sdAgain            \* Shutdown calls that found q.isShutdown set

VARIABLES
  \* --- the manager's layout timer (time.AfterFunc) ----------------------
  ltArmed,           \* the timers that are armed, oldest first: ticks since armed
  ltCur,             \* m.layoutTimer is an armed timer (the newest one)
  ltDue,             \* timer functions started by an expiry and not yet run
  layoutRuns,        \* calls of tmux.ApplyLayout made by timer functions
  ltBurst            \* drain callbacks since the last one that found no timer armed

qvars == <<items, pendingBySession, inFlight, isProcessing, isShutdown, heap, nItems>>
cvars == <<cpc, cSession, cPending, ch, cres>>
wvars == <<wpc, wItem, wAttempt, wRes, wPending, wLog, wStaleAtDeq>>
svars == <<sdpc, toResolve>>
ovars == <<lastUpdate, cItem, cLate, cVia, okSpawns>>
clvars == <<clpc, clSession, clPane>>
pvars == <<ppc, pFetch, pStatuses, pToClose, pDecided, pRemoved>>
rvars == <<rImpl, rMinChecks, rGrace, cands, spc, sList, sCmd, sPresent, sActive,
           sNow, sFetch, scans, procs, nStarts, rClock, signalled, hStreak, hFirst, killLog>>
cuvars == <<cupc, cuIds, mDone>>
mgrvars == <<cfgEnabled, insideTmux, sessions, pending, ticker, mpc, mEvent, mRet,
             clvars, closeCount, pvars, cuvars>>
ctlvars == <<svManager, svOnStop, gauges, managers, spawned, onStops,
             reqpc, reqKind, reqReason, reqMgr, reqResp>>
panevars == <<cpImpl, cppc, cpTodo, cpChild, cpLog, cpRet, kids>>
ravars == <<servers, rapc, raProcs, raUrls, raActive, raKills>>
chvars == <<sent, sdAgain>>
ltvars == <<ltArmed, ltCur, ltDue, layoutRuns, ltBurst>>
others == <<ctlvars, panevars, cfgs, ravars, chvars, ltvars>>
mvars == <<mgrvars, rvars, others>>
vars == <<qvars, cvars, wvars, svars, ovars, mvars>>

(* ------------------------------ helpers -------------------------------- *)
Range(s) == {s[i] : i \in 1..Len(s)}

\* func (q *Queue) pendingCountLocked() int
pendingCountLocked(its, inf) == Len(its) + (IF inf # None THEN 1 ELSE 0)

\* The channels after `waiter <- result` for every waiter of the list.
Deliver(chans, waiters, result) ==
  [c \in Callers |-> IF c \in Range(waiters) THEN Append(chans[c], result) ELSE chans[c]]

\* The heap when resolveItem leaves the waiters on the item.
TakeWaitersKept(h, i) == [h EXCEPT ![i].resolved = TRUE]

\* The heap after resolveItem took the item's waiters (item.waiters = nil).
TakeWaiters(h, i) == [h EXCEPT ![i].waiters = <<>>, ![i].resolved = TRUE]

\* Garbage collection: a queueItem that the queue, the workers and Shutdown
\* no longer point to is freed.  Evaluated on the state a step leads to.
Collect(h) ==
  [i \in ItemIds |->
     IF \/ i \in Range(items') \/ i = inFlight' \/ i \in toResolve'
        \/ \E s \in Sessions : pendingBySession'[s] = i
        \/ \E w \in Workers : wItem'[w] = i
       THEN h[i] ELSE NoItem]

\* spawnqueue.New(opts): the queue after construction.
QueueInit ==
  /\ items = <<>>
  /\ pendingBySession = [s \in Sessions |-> None]
  /\ inFlight = None
  /\ isProcessing = FALSE
  /\ isShutdown = FALSE
  /\ heap = [i \in ItemIds |-> NoItem]
  /\ nItems = 0
  /\ cpc = [c \in Callers |-> "idle"]
  /\ cSession = [c \in Callers |-> None]
  /\ cPending = [c \in Callers |-> 0]
  /\ ch = [c \in Callers |-> <<>>]
  /\ cres = [c \in Callers |-> Fail]
  /\ wpc = [w \in Workers |-> "none"]
  /\ wItem = [w \in Workers |-> None]
  /\ wAttempt = [w \in Workers |-> 0]
  /\ wRes = [w \in Workers |-> Fail]
  /\ wPending = [w \in Workers |-> 0]
  /\ wLog = [w \in Workers |-> <<>>]
  /\ wStaleAtDeq = [w \in Workers |-> FALSE]
  /\ sdpc = "idle"
  /\ toResolve = {}
  /\ lastUpdate = 0
  /\ cItem = [c \in Callers |-> None]
  /\ cLate = [c \in Callers |-> FALSE]
  /\ cVia = [c \in Callers |-> "none"]
  /\ okSpawns = [s \in Sessions |-> 0]
  /\ sent = [c \in Callers |-> 0]
  /\ sdAgain = 0

\* sessionmanager.New(cfg, serverURL, m): the manager after construction.
ManagerInit(cfgOn, inTmux) ==
  /\ cfgEnabled = cfgOn
  /\ insideTmux = inTmux
  /\ sessions = [s \in Sessions |-> NoSession]
  /\ pending = {}
  /\ ticker = FALSE
  /\ mpc = [c \in Callers |-> "idle"]
  /\ mEvent = [c \in Callers |-> NoEvent]
  /\ mRet = [c \in Callers |-> FALSE]
  /\ clpc = [k \in Closers |-> "idle"]
  /\ clSession = [k \in Closers |-> None]
  /\ clPane = [k \in Closers |-> None]
  /\ closeCount = [i \in ItemIds |-> 0]
  /\ ppc = [p \in Pollers |-> "none"]
  /\ pFetch = [p \in Pollers |-> "none"]
  /\ pStatuses = [p \in Pollers |-> NoStatuses]
  /\ pToClose = [p \in Pollers |-> {}]
  /\ pDecided = [p \in Pollers |-> {}]
  /\ pRemoved = [p \in Pollers |-> {}]
  /\ cupc = "idle"
  /\ cuIds = {}
  /\ mDone = FALSE
  /\ ltArmed = <<>>
  /\ ltCur = FALSE
  /\ ltDue = 0
  /\ layoutRuns = 0
  /\ ltBurst = 0

(* ------------------------------- reaper -------------------------------- *)
\* Number of scans started in a run.
MaxScans == 3
\* Last value of the wall clock, in ticks.
MaxClock == 1

\* Number of processes started in a run.
MaxStarts == 2

\* The pids of the machine.
Pids == {101, 102}
\* The server URL handed to New (opentmuxctl's default).
serverURL == "http://localhost:4096"
\* The command lines a process of the machine can have.
Commands ==
  {"opencode attach http://localhost:4096 --session ses_a",
   "opencode attach 127.0.0.1:4096 --session ses_b",
   "opencode attach http://localhost:40960 --session ses_a",
   "opencode attach http://localhost:4097 --session ses_b",
   "opencode attach http://localhost:4096",
   "opencode serve --port 4096"}
\* The session ids of a decoded /session/status body.
SessionIds == {"ses_a", "ses_b"}
\* The values the configuration file can give the two thresholds:
\* Config.Normalize leaves both as they are.
MinChecksChoices == 1..2
GraceChoices == 0..1
\* The zero value of candidate: r.cands[pid] of a pid without entry.
NoCandidate == [count |-> 0, firstSeen |-> 0]

MinOf(S) == CHOOSE x \in S : \A y \in S : x <= y
MaxOf(S) == CHOOSE x \in S : \A y \in S : x >= y
CharAt(s, i) == SubSeq(s, i, i)
HasPrefix(s, p) == Len(s) >= Len(p) /\ SubSeq(s, 1, Len(p)) = p
\* strings.Contains(s, sub)
Contains(s, sub) ==
  \E i \in 1..(Len(s) - Len(sub) + 1) : SubSeq(s, i, i + Len(sub) - 1) = sub
\* Index of the first space / first other character of s at or after
\* `from`; Len(s) + 1 if there is none.
FirstSpace(s, from) ==
  LET S == {i \in from..Len(s) : CharAt(s, i) = " "}
  IN IF S = {} THEN Len(s) + 1 ELSE MinOf(S)
FirstNonSpace(s, from) ==
  LET S == {i \in from..Len(s) : CharAt(s, i) # " "}
  IN IF S = {} THEN Len(s) + 1 ELSE MinOf(S)

\* strings.Fields(s)
RECURSIVE Fields(_)
Fields(s) ==
  LET b == FirstNonSpace(s, 1)
  IN IF b > Len(s)
       THEN <<>>
       ELSE LET e == FirstSpace(s, b)
            IN <<SubSeq(s, b, e - 1)>> \o Fields(SubSeq(s, e, Len(s)))

\* func extractSessionID(cmd string) string
extractSessionID(cmd) ==
  LET parts == Fields(cmd)
      I == {i \in 1..(Len(parts) - 1) : parts[i] = "--session"}
  IN IF I = {} THEN "" ELSE parts[MinOf(I) + 1]

Digits == {"0", "1", "2", "3", "4", "5", "6", "7", "8", "9"}
IdChars ==
  Digits \cup {"_", "-"} \cup
  {"a", "b", "c", "d", "e", "f", "g", "h", "i", "j", "k", "l", "m",
   "n", "o", "p", "q", "r", "s", "t", "u", "v", "w", "x", "y", "z"} \cup
  {"A", "B", "C", "D", "E", "F", "G", "H", "I", "J", "K", "L", "M",
   "N", "O", "P", "Q", "R", "S", "T", "U", "V", "W", "X", "Y", "Z"}

\* command.match(/word\s+(class+)/): the captured group of the leftmost
\* match, "" when there is no match.  The class is [chars] when `inside`
\* and [^chars] otherwise.
MatchAfter(s, word, chars, inside) ==
  LET InClass(c) == (c \in chars) = inside
      starts == {i \in 1..Len(s) :
                   /\ i + Len(word) <= Len(s)
                   /\ SubSeq(s, i, i + Len(word) - 1) = word
                   /\ CharAt(s, i + Len(word)) = " "
                   /\ LET b == FirstNonSpace(s, i + Len(word))
                      IN b <= Len(s) /\ InClass(CharAt(s, b))}
  IN IF starts = {}
       THEN ""
       ELSE LET b == FirstNonSpace(s, MinOf(starts) + Len(word))
                out == {j \in b..Len(s) : ~InClass(CharAt(s, j))}
                e == IF out = {} THEN Len(s) ELSE MinOf(out) - 1
            IN SubSeq(s, b, e)

\* findAllAttachProcesses: sessionMatch[1] and urlMatch[1] of a command.
sessionMatch(command) == MatchAfter(command, "--session", IdChars, TRUE)
urlMatch(command) == MatchAfter(command, "attach", {" "}, FALSE)

\* `normalize` of areUrlsEqual: the origin of the URL, after the scheme is
\* added where it is missing and localhost is replaced by 127.0.0.1; ""
\* stands for the exception of `new URL`.
normalize(u) ==
  LET u1 == IF HasPrefix(u, "http://") \/ HasPrefix(u, "https://")
              THEN u ELSE "http://" \o u
      scheme == IF HasPrefix(u1, "https://") THEN "https" ELSE "http"
      rest == SubSeq(u1, Len(scheme) + 4, Len(u1))
      stops == {i \in 1..Len(rest) : CharAt(rest, i) \in {"/", "?", "#"}}
      authority == IF stops = {} THEN rest ELSE SubSeq(rest, 1, MinOf(stops) - 1)
      colons == {i \in 1..Len(authority) : CharAt(authority, i) = ":"}
      host == IF colons = {} THEN authority
              ELSE SubSeq(authority, 1, MaxOf(colons) - 1)
      port == IF colons = {} THEN ""
              ELSE SubSeq(authority, MaxOf(colons) + 1, Len(authority))
      hostname == IF host = "localhost" THEN "127.0.0.1" ELSE host
      shown == IF \/ scheme = "http" /\ port = "80"
                  \/ scheme = "https" /\ port = "443"
                 THEN "" ELSE port
  IN IF host = "" \/ \E i \in 1..Len(port) : CharAt(port, i) \notin Digits
       THEN ""
       ELSE scheme \o "://" \o hostname \o (IF shown = "" THEN "" ELSE ":" \o shown)

\* ZombieReaper.areUrlsEqual(url1, url2); url1 = "" stands for null.
areUrlsEqual(url1, url2) ==
  IF url1 = ""
    THEN FALSE
    ELSE IF normalize(url1) = "" \/ normalize(url2) = ""
           THEN url1 = url2
           ELSE normalize(url1) = normalize(url2)

\* The ownership test of a scan: ScanOnce looks for the server URL in the
\* command line, scanOnce compares the origins of the attach target and of
\* the server URL.
OwnedByGo(cmd) == cmd # "" /\ Contains(cmd, serverURL)
OwnedByTs(cmd) == areUrlsEqual(urlMatch(cmd), serverURL)

\* proc.FindProcessIDs("opencode attach"): pgrep -f over the process table.
FindProcessIDs == {pid \in Pids : Contains(procs[pid], "opencode attach")}
\* ZombieReaper.findAllAttachProcesses: the processes found whose command
\* names a session.
findAllAttachProcesses ==
  {pid \in FindProcessIDs : procs[pid] # "" /\ sessionMatch(procs[pid]) # ""}

\* The pids of a set in the order in which pgrep prints them.
RECURSIVE InOrder(_)
InOrder(S) == IF S = {} THEN <<>> ELSE <<MinOf(S)>> \o InOrder(S \ {MinOf(S)})

\* reaper.New(serverURL, cfg) / new ZombieReaper(serverUrl, options), on a
\* machine without processes.
ReaperNew(impl, minChecks, grace) ==
  /\ rImpl = impl
  /\ rMinChecks = minChecks
  /\ rGrace = grace
  /\ cands = [pid \in Pids |-> NoCandidate]
  /\ spc = "idle"
  /\ sList = <<>>
  /\ sCmd = [pid \in Pids |-> ""]
  /\ sPresent = {}
  /\ sActive = {}
  /\ sNow = 0
  /\ sFetch = "none"
  /\ scans = 0
  /\ procs = [pid \in Pids |-> ""]
  /\ nStarts = 0
  /\ rClock = 0
  /\ signalled = {}
  /\ hStreak = [pid \in Pids |-> 0]
  /\ hFirst = [pid \in Pids |-> 0]
  /\ killLog = {}

\* The part of the state a scan does not touch.
outside == <<qvars, cvars, wvars, svars, ovars, mgrvars, others, rImpl, rMinChecks, rGrace>>
\* The part of the machine a scan does not touch.
machine == <<nStarts, rClock>>

\* The scan returns: its locals are gone.
ScanReturns ==
  /\ spc' = "idle"
  /\ sList' = <<>>
  /\ sCmd' = [pid \in Pids |-> ""]
  /\ sPresent' = {}
  /\ sActive' = {}
  /\ sNow' = 0

\* ScanOnce, lines 367-373, and scanOnce, lines 231-253: list the
\* processes; with nothing to look at, drop every candidate and return.
ScanStart ==
  /\ spc = "idle"
  /\ scans < MaxScans
  /\ scans' = scans + 1
  /\ sFetch' = "none"
  /\ LET mine == IF rImpl = "go"
                   THEN FindProcessIDs
                   ELSE {pid \in findAllAttachProcesses : OwnedByTs(procs[pid])}
     IN IF mine = {}
          THEN /\ cands' = [pid \in Pids |-> NoCandidate]
               /\ hStreak' = [pid \in Pids |-> 0]
               /\ ScanReturns
          ELSE /\ spc' = "fetch"
               /\ sList' = InOrder(mine)
               /\ sCmd' = [pid \in Pids |->
                             IF rImpl = "ts" /\ pid \in mine THEN procs[pid] ELSE ""]
               /\ sPresent' = {}
               /\ UNCHANGED <<cands, hStreak, sActive, sNow>>
  /\ UNCHANGED <<outside, procs, machine, signalled, hFirst, killLog>>

\* fetchActiveSessions (both): what can come back from /session/status.
ReaperFetchOutcomes ==
  {"ok", "transport error", "timeout", "status not 2xx", "undecodable body"}

\* `if !ok { return }` / `if (activeSessions === null) return`.
ScanSkipsNever(fetched) == FALSE
ScanSkips(fetched) == fetched # "ok"

\* ScanOnce, lines 375-382, and scanOnce, lines 255-262.
ScanFetch(outcome, active) ==
  /\ spc = "fetch"
  /\ outcome # "ok" => active = {}
  /\ sFetch' = IF outcome = "ok" THEN "ok" ELSE "failed"
  /\ IF ScanSkips(sFetch')
       THEN ScanReturns
       ELSE /\ spc' = "loop"
            /\ sActive' = active
            /\ sNow' = IF rImpl = "go" THEN rClock ELSE 0
            /\ UNCHANGED <<sList, sCmd, sPresent>>
  /\ UNCHANGED <<outside, cands, scans, procs, machine, signalled, hStreak, hFirst,
                 killLog>>

\* `shouldKill` of ScanOnce / ZombieReaper.shouldKill.
shouldKill(cand, t) == cand.count >= rMinChecks /\ t - cand.firstSeen >= rGrace

\* One round of the loop over the processes: ScanOnce, lines 384-419, and
\* scanOnce, lines 264-281 with markAsZombie and reapProcess.  The signal
\* goes to the process that has the pid when it is sent.
ScanPid ==
  /\ spc = "loop"
  /\ sList # <<>>
  /\ LET pid == Head(sList)
         cmd == IF rImpl = "go" THEN procs[pid] ELSE sCmd[pid]
         owned == IF rImpl = "go" THEN OwnedByGo(cmd) ELSE TRUE
         sid == IF rImpl = "go" THEN extractSessionID(cmd) ELSE sessionMatch(cmd)
         t == IF rImpl = "go" THEN sNow ELSE rClock
         cand == IF cands[pid].count = 0
                   THEN [count |-> 1, firstSeen |-> t]
                   ELSE [cands[pid] EXCEPT !.count = @ + 1]
         first == IF hStreak[pid] = 0 THEN t ELSE hFirst[pid]
     IN /\ sList' = Tail(sList)
        /\ sPresent' = sPresent \cup {pid}
        /\ IF ~owned
             THEN UNCHANGED <<cands, procs, signalled, hStreak, hFirst, killLog>>
             ELSE IF sid = "" \/ sid \in sActive
               THEN /\ cands' = [cands EXCEPT ![pid] = NoCandidate]
                    /\ hStreak' = [hStreak EXCEPT ![pid] = 0]
                    /\ UNCHANGED <<procs, signalled, hFirst, killLog>>
               ELSE /\ hStreak' = [hStreak EXCEPT ![pid] = @ + 1]
                    /\ hFirst' = [hFirst EXCEPT ![pid] = first]
                    /\ IF shouldKill(cand, t)
                         THEN /\ cands' = [cands EXCEPT ![pid] = NoCandidate]
                              /\ procs' = [procs EXCEPT ![pid] = ""]
                              /\ signalled' = signalled \cup
                                   (IF procs[pid] = "" THEN {} ELSE {procs[pid]})
                              /\ killLog' = killLog \cup
                                   {[streak |-> hStreak[pid] + 1, age |-> t - first]}
                         ELSE /\ cands' = [cands EXCEPT ![pid] = cand]
                              /\ UNCHANGED <<procs, signalled, killLog>>
  /\ UNCHANGED <<outside, spc, sCmd, sActive, sNow, sFetch, scans, machine>>

\* ScanOnce, lines 421-428, and scanOnce line 283 with pruneCandidates: the
\* candidates of pids the loop did not visit are dropped.
ScanPrune ==
  /\ spc = "loop"
  /\ sList = <<>>
  /\ cands' = [pid \in Pids |-> IF pid \in sPresent THEN cands[pid] ELSE NoCandidate]
  /\ hStreak' = [pid \in Pids |-> IF pid \in sPresent THEN hStreak[pid] ELSE 0]
  /\ ScanReturns
  /\ UNCHANGED <<outside, sFetch, scans, procs, machine, signalled, hFirst, killLog>>

\* A process starts and is given a free pid.
ProcStart(pid, cmd) ==
  /\ procs[pid] = ""
  /\ nStarts < MaxStarts
  /\ nStarts' = nStarts + 1
  /\ procs' = [procs EXCEPT ![pid] = cmd]
  /\ UNCHANGED <<outside, cands, spc, sList, sCmd, sPresent, sActive, sNow, sFetch,
                 scans, rClock, signalled, hStreak, hFirst, killLog>>

\* A process exits.
ProcExit(pid) ==
  /\ procs[pid] # ""
  /\ procs' = [procs EXCEPT ![pid] = ""]
  /\ UNCHANGED <<outside, cands, spc, sList, sCmd, sPresent, sActive, sNow, sFetch,
                 scans, machine, signalled, hStreak, hFirst, killLog>>

\* The wall clock advances.
ClockTick ==
  /\ rClock < MaxClock
  /\ rClock' = rClock + 1
  /\ UNCHANGED <<outside, cands, spc, sList, sCmd, sPresent, sActive, sNow, sFetch,
                 scans, procs, nStarts, signalled, hStreak, hFirst, killLog>>

(* ========================= control.Service ============================== *)
\* The daemon's RPC service.  Each handler is a goroutine of its own; the
\* managers it creates are summarised by what the service can observe of
\* them: whether they exist, how often Cleanup was called on them, the queue
\* items they created and the gauges they wrote.
MaxReqs == 4
Reqs == 1..MaxReqs
NoManager == 0
Reasons == {"signal", "idle-timeout"}
ZeroGauges == [trackedSessions |-> 0, pendingSessions |-> 0, queueDepth |-> 0]
NoResp == [kind |-> "none", flag |-> FALSE, err |-> FALSE, snap |-> ZeroGauges]
\* connect.NewResponse(...), nil: every handler returns a nil error.
Resp(kind, flag, snap) == [kind |-> kind, flag |-> flag, err |-> FALSE, snap |-> snap]

\* func NewService(onStop func(string)) *Service
NewService(onStop) ==
  /\ svManager = NoManager
  /\ svOnStop = onStop
  /\ gauges = ZeroGauges
  /\ managers = [m \in Reqs |-> [made |-> FALSE, cleanups |-> 0]]
  /\ spawned = 0
  /\ onStops = <<>>
  /\ reqpc = [r \in Reqs |-> "idle"]
  /\ reqKind = [r \in Reqs |-> "none"]
  /\ reqReason = [r \in Reqs |-> ""]
  /\ reqMgr = [r \in Reqs |-> NoManager]
  /\ reqResp = [r \in Reqs |-> NoResp]

\* What the service's handlers leave alone.
beyondService == <<qvars, cvars, wvars, svars, ovars, mgrvars, rvars, panevars, cfgs, ravars, chvars, ltvars>>

\* Request r is the next one to arrive.
NextRequest(r) == reqpc[r] = "idle" /\ \A q \in 1..(r - 1) : reqpc[q] # "idle"

\* if manager == nil, never true: the event always goes to the manager.
NilManagerNever(m) == FALSE

\* if manager == nil
NilManager(m) == m = NoManager

\* func (s *Service) Init: the whole handler runs under s.mu.  The manager
\* it creates is named after the request.
ServiceInit(r) ==
  /\ NextRequest(r)
  /\ reqKind' = [reqKind EXCEPT ![r] = "init"]
  /\ reqMgr' = [reqMgr EXCEPT ![r] = svManager]
  /\ managers' = [managers EXCEPT ![r].made = TRUE]
  /\ svManager' = r
  /\ reqResp' = [reqResp EXCEPT ![r] = Resp("init", TRUE, ZeroGauges)]
  /\ reqpc' = [reqpc EXCEPT ![r] = "done"]
  /\ UNCHANGED <<beyondService, svOnStop, gauges, spawned, onStops, reqReason>>

\* func (s *Service) OnSessionCreated, lines 45-47: copy s.manager.
ServiceSessionLock(r) ==
  /\ NextRequest(r)
  /\ reqKind' = [reqKind EXCEPT ![r] = "session"]
  /\ reqMgr' = [reqMgr EXCEPT ![r] = svManager]
  /\ reqpc' = [reqpc EXCEPT ![r] = "call"]
  /\ UNCHANGED <<beyondService, svManager, svOnStop, gauges, managers, spawned, onStops,
                 reqReason, reqResp>>

\* Lines 49-61: without a manager the event is refused; otherwise the
\* manager decides, and an accepted event created a queue item and a pane
\* and is counted by the gauge of tracked sessions.
ServiceSessionCall(r) ==
  /\ reqpc[r] = "call"
  /\ IF NilManager(reqMgr[r])
       THEN /\ reqResp' = [reqResp EXCEPT ![r] = Resp("session", FALSE, ZeroGauges)]
            /\ UNCHANGED <<spawned, gauges>>
       ELSE \E accepted \in BOOLEAN :
              /\ reqResp' = [reqResp EXCEPT ![r] = Resp("session", accepted, ZeroGauges)]
              /\ IF accepted
                   THEN /\ spawned' = spawned + 1
                        /\ gauges' = [gauges EXCEPT !.trackedSessions = @ + 1]
                   ELSE UNCHANGED <<spawned, gauges>>
  /\ reqpc' = [reqpc EXCEPT ![r] = "done"]
  /\ UNCHANGED <<beyondService, svManager, svOnStop, managers, onStops, reqKind, reqReason,
                 reqMgr>>

\* func (s *Service) Shutdown, lines 65-69: take the manager out of the
\* service.
ServiceShutdownSwap(r, reason) ==
  /\ NextRequest(r)
  /\ reqKind' = [reqKind EXCEPT ![r] = "shutdown"]
  /\ reqReason' = [reqReason EXCEPT ![r] = reason]
  /\ reqMgr' = [reqMgr EXCEPT ![r] = svManager]
  /\ svManager' = NoManager
  /\ reqpc' = [reqpc EXCEPT ![r] = "cleanup"]
  /\ UNCHANGED <<beyondService, svOnStop, gauges, managers, spawned, onStops, reqResp>>

\* Lines 71-73: manager.Cleanup(reason), which closes the sessions the
\* manager tracks.
ServiceShutdownCleanup(r) ==
  /\ reqpc[r] = "cleanup"
  /\ IF reqMgr[r] # NoManager
       THEN /\ managers' = [managers EXCEPT ![reqMgr[r]].cleanups = @ + 1]
            /\ gauges' = [gauges EXCEPT !.trackedSessions = 0]
       ELSE UNCHANGED <<managers, gauges>>
  /\ reqpc' = [reqpc EXCEPT ![r] = "stop"]
  /\ UNCHANGED <<beyondService, svManager, svOnStop, spawned, onStops, reqKind, reqReason,
                 reqMgr, reqResp>>

\* Lines 74-78: go onStop(reason), and the response.
ServiceShutdownStop(r) ==
  /\ reqpc[r] = "stop"
  /\ onStops' = IF svOnStop
                THEN Append(onStops, [req |-> r, reason |-> reqReason[r], ran |-> FALSE])
                ELSE onStops
  /\ reqResp' = [reqResp EXCEPT ![r] = Resp("shutdown", TRUE, ZeroGauges)]
  /\ reqpc' = [reqpc EXCEPT ![r] = "done"]
  /\ UNCHANGED <<beyondService, svManager, svOnStop, gauges, managers, spawned, reqKind,
                 reqReason, reqMgr>>

\* The goroutine of line 75 runs the callback.
OnStopRuns(i) ==
  /\ i \in 1..Len(onStops)
  /\ ~onStops[i].ran
  /\ onStops' = [onStops EXCEPT ![i].ran = TRUE]
  /\ UNCHANGED <<beyondService, svManager, svOnStop, gauges, managers, spawned, reqpc,
                 reqKind, reqReason, reqMgr, reqResp>>

\* func (s *Service) Stats: a snapshot of the gauges.
ServiceStats(r) ==
  /\ NextRequest(r)
  /\ reqKind' = [reqKind EXCEPT ![r] = "stats"]
  /\ reqResp' = [reqResp EXCEPT ![r] = Resp("stats", TRUE, gauges)]
  /\ reqpc' = [reqpc EXCEPT ![r] = "done"]
  /\ UNCHANGED <<beyondService, svManager, svOnStop, gauges, managers, spawned, onStops,
                 reqReason, reqMgr>>

(* ==================== tmux.ClosePane / closeTmuxPane ==================== *)
\* Closing a pane: the Go daemon's tmux.ClosePane and the plugin's
\* closeTmuxPane.  The pane's shell has children on the machine, which may
\* exit at any time.
ShellPid == 42
OtherParent == 1
PaneKids == {201, 202}
KidCommands ==
  {"opencode attach http://localhost:4096 --session ses_a",
   "/usr/bin/node /opt/opencode/bin/cli.js",
   "vim notes.md"}
\* What `tmux list-panes -t pane -F #{pane_pid}` can print.
ListPanesOutputs == {"42\n", " 42", "0\n", "", "pane\n"}
NoChild == 0

\* strings.TrimSpace / String.prototype.trim
RECURSIVE TrimSpace(_)
TrimSpace(s) ==
  IF s = "" THEN s
  ELSE IF CharAt(s, 1) \in {" ", "\n"} THEN TrimSpace(SubSeq(s, 2, Len(s)))
  ELSE IF CharAt(s, Len(s)) \in {" ", "\n"} THEN TrimSpace(SubSeq(s, 1, Len(s) - 1))
  ELSE s

DigitValue(c) == CHOOSE d \in 0..9 : CharAt("0123456789", d + 1) = c
\* The decimal number s starts with; -1 if it starts with no digit.
RECURSIVE LeadingNumber(_, _)
LeadingNumber(s, acc) ==
  IF s = "" \/ CharAt(s, 1) \notin Digits
    THEN acc
    ELSE LeadingNumber(SubSeq(s, 2, Len(s)),
                       (IF acc < 0 THEN 0 ELSE acc * 10) + DigitValue(CharAt(s, 1)))

\* func parsePID(raw string) int: 0 when nothing was scanned.
parsePID(raw) ==
  LET n == LeadingNumber(TrimSpace(raw), -1) IN IF n < 0 THEN 0 ELSE n
\* parseInt(stdout.trim(), 10): -1 stands for NaN.
parseInt(raw) == LeadingNumber(TrimSpace(raw), -1)

\* Go: shellPID > 0.  TS: Number.isFinite(shellPid).
ShellFound(impl, stdout) ==
  IF impl = "go" THEN parsePID(stdout) > 0 ELSE parseInt(stdout) >= 0
ShellOf(impl, stdout) ==
  IF impl = "go" THEN parsePID(stdout) ELSE parseInt(stdout)

\* proc.GetProcessChildren(pid): pgrep -P pid
GetProcessChildren(pid) ==
  InOrder({k \in PaneKids : kids[k].alive /\ kids[k].parent = pid})
\* proc.GetProcessCommand(pid): ps -p pid -o command=
GetProcessCommand(pid) == IF kids[pid].alive THEN kids[pid].cmd ELSE ""
\* proc.IsProcessAlive(pid)
IsProcessAlive(pid) == kids[pid].alive
\* The wait that never sees the child exit.
WaitNeverSeesExit(pid) == FALSE
\* proc.WaitForProcessExit(pid, 2 s), at the time it returns.
WaitForProcessExit(pid) == ~IsProcessAlive(pid)

Did(ev, pid, info) == [ev |-> ev, pid |-> pid, info |-> info]

\* The machine as a ClosePane call finds it.
PaneMachine(impl, k) ==
  /\ cpImpl = impl
  /\ cppc = "idle"
  /\ cpTodo = <<>>
  /\ cpChild = NoChild
  /\ cpLog = <<>>
  /\ cpRet = "none"
  /\ kids = k

beyondPane == <<qvars, cvars, wvars, svars, ovars, mgrvars, rvars, ctlvars, cfgs, ravars, chvars, ltvars>>

\* Lines 229-235: an empty pane id or no tmux binary ends the call.
ClosePaneStart(paneID, tmuxPath) ==
  /\ cppc = "idle"
  /\ IF paneID = "" \/ tmuxPath = ""
       THEN cpRet' = FALSE /\ cppc' = "done"
       ELSE cpRet' = cpRet /\ cppc' = "listPanes"
  /\ UNCHANGED <<beyondPane, cpImpl, cpTodo, cpChild, cpLog, kids>>

\* Lines 237-240: list-panes, the shell's pid and its children.
ClosePaneListPanes ==
  /\ cppc = "listPanes"
  /\ \/ \* the command failed
        /\ cpTodo' = <<>>
        /\ cppc' = "killPane"
     \/ \E stdout \in ListPanesOutputs :
          IF ShellFound(cpImpl, stdout)
            THEN /\ cpTodo' = GetProcessChildren(ShellOf(cpImpl, stdout))
                 /\ cppc' = "loop"
            ELSE /\ cpTodo' = <<>>
                 /\ cppc' = "killPane"
  /\ UNCHANGED <<beyondPane, cpImpl, cpChild, cpLog, cpRet, kids>>

\* Lines 241-244: the next child; one whose command contains "opencode" is
\* sent SIGTERM.
ClosePaneChild ==
  /\ cppc = "loop"
  /\ cpTodo # <<>>
  /\ LET childPID == Head(cpTodo)
         cmd == GetProcessCommand(childPID)
     IN  IF Contains(cmd, "opencode")
           THEN /\ cpLog' = cpLog \o <<Did("ps", childPID, cmd), Did("SIGTERM", childPID, "")>>
                /\ cpChild' = childPID
                /\ cppc' = "wait"
           ELSE /\ cpLog' = Append(cpLog, Did("ps", childPID, cmd))
                /\ cpChild' = NoChild
                /\ cppc' = "loop"
  /\ cpTodo' = Tail(cpTodo)
  /\ UNCHANGED <<beyondPane, cpImpl, cpRet, kids>>

\* Lines 245-247: the wait is over; a child that is still there is sent
\* SIGKILL, which ends it.
ClosePaneWait ==
  /\ cppc = "wait"
  /\ IF WaitForProcessExit(cpChild)
       THEN UNCHANGED <<cpLog, kids>>
       ELSE /\ cpLog' = Append(cpLog, Did("SIGKILL", cpChild,
                                          IF IsProcessAlive(cpChild) THEN "alive" ELSE "exited"))
            /\ kids' = [kids EXCEPT ![cpChild].alive = FALSE]
  /\ cpChild' = NoChild
  /\ cppc' = "loop"
  /\ UNCHANGED <<beyondPane, cpImpl, cpTodo, cpRet>>

\* The loop is over.
ClosePaneLoopEnd ==
  /\ cppc = "loop"
  /\ cpTodo = <<>>
  /\ cppc' = "killPane"
  /\ UNCHANGED <<beyondPane, cpImpl, cpTodo, cpChild, cpLog, cpRet, kids>>

\* Lines 253-257: kill-pane; its failure ends the call with false.
ClosePaneKillPane ==
  /\ cppc = "killPane"
  /\ \E ok \in BOOLEAN :
       /\ cpLog' = Append(cpLog, Did("kill-pane", NoChild, IF ok THEN "ok" ELSE "failed"))
       /\ IF ok THEN cpRet' = cpRet /\ cppc' = "layout"
                ELSE cpRet' = FALSE /\ cppc' = "done"
  /\ UNCHANGED <<beyondPane, cpImpl, cpTodo, cpChild, kids>>

\* Lines 258-259: ApplyLayout, whose error is dropped.
ClosePaneLayout ==
  /\ cppc = "layout"
  /\ \E ok \in BOOLEAN :
       cpLog' = Append(cpLog, Did("layout", NoChild, IF ok THEN "ok" ELSE "failed"))
  /\ cpRet' = TRUE
  /\ cppc' = "done"
  /\ UNCHANGED <<beyondPane, cpImpl, cpTodo, cpChild, kids>>

\* A process of the machine exits.
KidExits(k) ==
  /\ kids[k].alive
  /\ kids' = [kids EXCEPT ![k].alive = FALSE]
  /\ UNCHANGED <<beyondPane, cpImpl, cppc, cpTodo, cpChild, cpLog, cpRet>>

NoKids == [k \in PaneKids |-> [cmd |-> "", parent |-> OtherParent, alive |-> FALSE]]

(* ============================ config.Config ============================= *)
\* How often Normalize is applied to one Config.
MaxNormalize == 2

\* func DefaultConfig() Config, the fields Normalize reads and one it does
\* not.
DefaultConfig ==
  [Port |-> 4096, Layout |-> "main-vertical", MainPaneSize |-> 60,
   SpawnDelayMs |-> 300, MaxRetryAttempts |-> 2, LayoutDebounceMs |-> 150,
   MaxAgentsPerColumn |-> 3, ReaperMinZombieChecks |-> 3, MaxPorts |-> 10]

\* The Configs a file or an Init request can hold: each field at and next
\* to the ends of its range.
Configs ==
  [Port : {0, 8080}, Layout : {"", "tiled"}, MainPaneSize : {19, 20, 45, 80, 81},
   SpawnDelayMs : {49, 50, 2000, 2001}, MaxRetryAttempts : {-1, 0, 5, 6},
   LayoutDebounceMs : {49, 50, 1000, 1001}, MaxAgentsPerColumn : {0, 1, 10, 11},
   ReaperMinZombieChecks : {0, 3}, MaxPorts : {0, 1, 100, 101}]

\* Every field pulled to the nearest end of its range.
NormalizeClamp(c) ==
  LET Clamp(x, lo, hi) == IF x < lo THEN lo ELSE IF x > hi THEN hi ELSE x
  IN [c EXCEPT !.Port = IF c.Port <= 0 THEN 4096 ELSE c.Port,
               !.Layout = IF c.Layout = "" THEN "main-vertical" ELSE c.Layout,
               !.MainPaneSize = Clamp(c.MainPaneSize, 20, 80),
               !.SpawnDelayMs = Clamp(c.SpawnDelayMs, 50, 2000),
               !.MaxRetryAttempts = Clamp(c.MaxRetryAttempts, 0, 5),
               !.LayoutDebounceMs = Clamp(c.LayoutDebounceMs, 50, 1000),
               !.MaxAgentsPerColumn = Clamp(c.MaxAgentsPerColumn, 1, 10),
               !.MaxPorts = Clamp(c.MaxPorts, 1, 100)]

\* func (c *Config) Normalize()
Normalize(c) ==
  [c EXCEPT
     !.Port = IF c.Port <= 0 THEN 4096 ELSE c.Port,
     !.Layout = IF c.Layout = "" THEN "main-vertical" ELSE c.Layout,
     !.MainPaneSize = IF c.MainPaneSize < 20 \/ c.MainPaneSize > 80 THEN 60 ELSE c.MainPaneSize,
     !.SpawnDelayMs = IF c.SpawnDelayMs < 50 \/ c.SpawnDelayMs > 2000 THEN 300 ELSE c.SpawnDelayMs,
     !.MaxRetryAttempts = IF c.MaxRetryAttempts < 0 \/ c.MaxRetryAttempts > 5 THEN 2 ELSE c.MaxRetryAttempts,
     !.LayoutDebounceMs = IF c.LayoutDebounceMs < 50 \/ c.LayoutDebounceMs > 1000 THEN 150 ELSE c.LayoutDebounceMs,
     !.MaxAgentsPerColumn = IF c.MaxAgentsPerColumn < 1 \/ c.MaxAgentsPerColumn > 10 THEN 3 ELSE c.MaxAgentsPerColumn,
     !.MaxPorts = IF c.MaxPorts < 1 \/ c.MaxPorts > 100 THEN 10 ELSE c.MaxPorts]

\* cfg.Normalize(), once more.
NormalizeCall ==
  /\ Len(cfgs) <= MaxNormalize
  /\ cfgs' = Append(cfgs, Normalize(cfgs[Len(cfgs)]))
  /\ UNCHANGED <<qvars, cvars, wvars, svars, ovars, mgrvars, rvars, ctlvars, panevars, ravars, chvars, ltvars>>

(* ======================== ZombieReaper.reapAll ========================== *)
\* The manual reap of the plugin's command line.  The machine's processes
\* are those of `procs`; they start and exit while the call runs.
ServerUrls == {"http://localhost:4096", "http://localhost:4097"}
\* The attach clients a machine can run, with the server each one is
\* attached to ("" where the command names none) and its session.
AttachClients ==
  {[cmd |-> "opencode attach http://localhost:4096 --session ses_a",
    host |-> "http://localhost:4096", session |-> "ses_a"],
   [cmd |-> "opencode attach http://localhost:4097 --session ses_b",
    host |-> "http://localhost:4097", session |-> "ses_b"],
   [cmd |-> "opencode attach --session ses_a http://localhost:4096",
    host |-> "http://localhost:4096", session |-> "ses_a"],
   [cmd |-> "opencode attach-all --session ses_b",
    host |-> "", session |-> "ses_b"]}
ManualCommands == {c.cmd : c \in AttachClients} \cup {"opencode serve --port 4096"}
NoFetch == [ok |-> FALSE, active |-> {}]

\* new URL('/session/status', url) does not throw.
ValidBase(url) == HasPrefix(url, "http://") \/ HasPrefix(url, "https://")

\* fetchActiveSessions(url) as reapAll sees it: null when the URL cannot be
\* built, the server is not one of the machine's or does not answer.
fetchActiveSessions(url) ==
  IF ValidBase(url) /\ url \in ServerUrls /\ servers[url].up
    THEN [ok |-> TRUE, active |-> servers[url].active]
    ELSE NoFetch

\* The entry findAllAttachProcesses makes for a pid.
AttachProcess(pid) ==
  [pid |-> pid, sessionId |-> sessionMatch(procs[pid]),
   targetUrl |-> urlMatch(procs[pid]), command |-> procs[pid]]

\* p.targetUrl || 'unknown'
GroupKey(p) == IF p.targetUrl = "" THEN "unknown" ELSE p.targetUrl

\* The keys of byUrl in the order of their insertion.
RECURSIVE GroupKeys(_)
GroupKeys(ps) ==
  IF ps = <<>> THEN <<>>
  ELSE LET rest == GroupKeys(Tail(ps))
       IN <<GroupKey(Head(ps))>> \o
          SelectSeq(rest, LAMBDA u : u # GroupKey(Head(ps)))

ReapAllIdle(srv) ==
  /\ servers = srv
  /\ rapc = "idle"
  /\ raProcs = <<>>
  /\ raUrls = <<>>
  /\ raActive = NoFetch
  /\ raKills = {}

beyondReapAll == <<qvars, cvars, wvars, svars, ovars, mgrvars, rvars, ctlvars, panevars, cfgs, chvars, ltvars>>

\* Lines 136-155: list the attach processes and group them by target URL.
ReapAllStart ==
  /\ rapc = "idle"
  /\ LET pids == InOrder(findAllAttachProcesses)
         processes == [i \in 1..Len(pids) |-> AttachProcess(pids[i])]
     IN  /\ raProcs' = processes
         /\ raUrls' = GroupKeys(processes)
         /\ rapc' = IF processes = <<>> THEN "done" ELSE "loop"
  /\ UNCHANGED <<beyondReapAll, servers, raActive, raKills>>

\* Lines 159-173: the next group; the group 'unknown' is skipped, for any
\* other the sessions of its server are fetched.
ReapAllFetch ==
  /\ rapc = "loop"
  /\ raUrls # <<>>
  /\ IF Head(raUrls) = "unknown"
       THEN /\ raUrls' = Tail(raUrls)
            /\ UNCHANGED <<rapc, raActive>>
       ELSE /\ raActive' = fetchActiveSessions(Head(raUrls))
            /\ rapc' = "kill"
            /\ UNCHANGED raUrls
  /\ UNCHANGED <<beyondReapAll, servers, raProcs, raKills>>

\* Whether reapAll signals entry p of a group, given what the fetch gave.
Reaps(p, fetched) == ~fetched.ok \/ p.sessionId \notin fetched.active

\* Lines 174-195: forceKill for every entry of the group when the fetch
\* failed, else for those whose session is not active.
ReapAllKill ==
  /\ rapc = "kill"
  /\ LET url == Head(raUrls)
         group == {i \in 1..Len(raProcs) : GroupKey(raProcs[i]) = url}
     IN  raKills' = raKills \cup
           {[pid |-> raProcs[i].pid, hit |-> procs[raProcs[i].pid], entry |-> raProcs[i]] :
              i \in {j \in group : Reaps(raProcs[j], raActive)}}
  /\ raUrls' = Tail(raUrls)
  /\ rapc' = "loop"
  /\ UNCHANGED <<beyondReapAll, servers, raProcs, raActive>>

\* Line 197: every group was visited.
ReapAllReturn ==
  /\ rapc = "loop"
  /\ raUrls = <<>>
  /\ rapc' = "done"
  /\ UNCHANGED <<beyondReapAll, servers, raProcs, raUrls, raActive, raKills>>

NoServers == [u \in ServerUrls |-> [up |-> FALSE, active |-> {}]]

\* No component besides the queue, the manager and the reaper is in use.
Elsewhere ==
  /\ NewService(FALSE)
  /\ PaneMachine("go", NoKids)
  /\ cfgs = <<DefaultConfig>>
  /\ ReapAllIdle(NoServers)

\* The queue of an enabled manager, used on its own; its reaper has the
\* default thresholds and is not running.
Init == QueueInit /\ ManagerInit(TRUE, TRUE) /\ ReaperNew("go", 3, 1) /\ Elsewhere

(* ------------------------- callbacks and helpers ----------------------- *)
\* func (q *Queue) notifyUpdate(pending int): the manager's OnQueueUpdate
\* stores the value in the queue-depth gauge.
notifyUpdate(count) == lastUpdate' = count

\* func (q *Queue) resolveItem(item, result): takes the waiters under the
\* lock, then sends the result on each waiter's channel and closes it.  The
\* channels have capacity 1 and one sender, so the sends never block.
resolveItem(i, result) ==
  /\ ch' = Deliver(ch, heap[i].waiters, result)
  /\ sent' = [c \in Callers |->
               sent[c] + Cardinality({k \in 1..Len(heap[i].waiters) : heap[i].waiters[k] = c})]
  /\ heap' = Collect(TakeWaiters(heap, i))
  /\ UNCHANGED <<mgrvars, rvars, ctlvars, panevars, cfgs, ravars, sdAgain, ltvars>>

(* ------------------------------- Enqueue ------------------------------- *)
\* Bug: Enqueue does not test q.isShutdown.
EnqueueNeverRejected == FALSE

\* Enqueue, line 90: if q.isShutdown
EnqueueRejected == isShutdown

\* Bug: Enqueue does not look the session up in the dedup index.
ExistingIgnored(s) == None

\* Enqueue, line 95: existing, ok := q.pendingBySession[sessionID]
Existing(s) == pendingBySession[s]

\* Callers and session ids are interchangeable: callers take the lock in the
\* order of their ids and a new session id is the least one not used so far.
MayStart(c, s) ==
  /\ \A d \in Callers : d < c => cpc[d] # "idle"
  /\ \A r \in Sessions : r < s => \E d \in Callers : cSession[d] = r

\* Enqueue, lines 87-115: the critical section.
EnqueueLock(c, s) ==
  /\ cpc[c] = "idle"
  /\ cSession' = [cSession EXCEPT ![c] = s]
  /\ IF EnqueueRejected
       THEN /\ cpc' = [cpc EXCEPT ![c] = "done"]
            /\ cres' = [cres EXCEPT ![c] = Fail]
            /\ cVia' = [cVia EXCEPT ![c] = "shutdown"]
            /\ UNCHANGED <<qvars, cPending, cItem, cLate>>
       ELSE IF Existing(s) # None
         THEN /\ heap' = [heap EXCEPT ![Existing(s)].waiters = Append(@, c)]
              /\ cItem' = [cItem EXCEPT ![c] = Existing(s)]
              /\ cLate' = [cLate EXCEPT ![c] = heap[Existing(s)].resolved]
              /\ cpc' = [cpc EXCEPT ![c] = "wait"]
              /\ UNCHANGED <<items, pendingBySession, inFlight, isProcessing,
                             isShutdown, nItems, cPending, cres, cVia>>
         ELSE /\ nItems' = nItems + 1
              /\ heap' = [heap EXCEPT ![nItems + 1] =
                            [sessionID |-> s, age |-> 0, waiters |-> <<c>>,
                             resolved |-> FALSE]]
              /\ items' = Append(items, nItems + 1)
              /\ pendingBySession' = [pendingBySession EXCEPT ![s] = nItems + 1]
              /\ cPending' = [cPending EXCEPT ![c] = pendingCountLocked(items', inFlight)]
              /\ cItem' = [cItem EXCEPT ![c] = nItems + 1]
              /\ cpc' = [cpc EXCEPT ![c] = "notify"]
              /\ UNCHANGED <<inFlight, isProcessing, isShutdown, cres, cVia, cLate>>
  /\ UNCHANGED <<ch, wvars, svars, lastUpdate>>
  /\ UNCHANGED <<okSpawns, mvars>>

\* Enqueue, line 117: q.notifyUpdate(pending)
EnqueueNotify(c) ==
  /\ cpc[c] = "notify"
  /\ notifyUpdate(cPending[c])
  /\ cPending' = [cPending EXCEPT ![c] = 0]
  /\ cpc' = [cpc EXCEPT ![c] = "processAsync"]
  /\ UNCHANGED <<qvars, cSession, ch, cres, wvars, svars, cItem, cLate, cVia>>
  /\ UNCHANGED <<okSpawns, mvars>>

\* Bug: processAsync does not test q.isProcessing.
CanStartWorkerAlways == ~isShutdown

\* processAsync, line 160: a worker is started unless one is running or the
\* queue is shut down.
CanStartWorker == ~(isProcessing \/ isShutdown)

\* The goroutine `go q.processLoop()` gets the least free slot.
FreeSlot == CHOOSE w \in Workers : wpc[w] = "none" /\ \A v \in Workers : wpc[v] = "none" => w <= v

\* Enqueue, line 118: q.processAsync(), lines 158-168.
EnqueueProcessAsync(c) ==
  /\ cpc[c] = "processAsync"
  /\ IF CanStartWorker
       THEN /\ \E w \in Workers : wpc[w] = "none"
            /\ isProcessing' = TRUE
            /\ wpc' = [wpc EXCEPT ![FreeSlot] = "loop"]
       ELSE UNCHANGED <<isProcessing, wpc>>
  /\ cpc' = [cpc EXCEPT ![c] = "wait"]
  /\ UNCHANGED <<items, pendingBySession, inFlight, isShutdown, heap, nItems, cSession, cPending, ch, cres, wItem, wAttempt, wRes, wPending, wLog,
                 wStaleAtDeq, svars, ovars>>
  /\ UNCHANGED <<okSpawns, mvars>>

\* Enqueue, lines 99 and 121: case res := <-resultCh
EnqueueReceive(c) ==
  /\ cpc[c] = "wait"
  /\ ch[c] # <<>>
  /\ cres' = [cres EXCEPT ![c] = Head(ch[c])]
  /\ ch' = [ch EXCEPT ![c] = Tail(@)]
  /\ cVia' = [cVia EXCEPT ![c] = "chan"]
  /\ cpc' = [cpc EXCEPT ![c] = "done"]
  /\ UNCHANGED <<qvars, cSession, cPending, wvars, svars, lastUpdate, cItem, cLate>>
  /\ UNCHANGED <<okSpawns, mvars>>

\* Enqueue, lines 101 and 123: case <-ctx.Done().  The caller's context is
\* read nowhere else, so its cancellation and this branch are one step; a
\* cancelled context whose select takes the result instead is EnqueueReceive.
EnqueueCtxDone(c) ==
  /\ cpc[c] = "wait"
  /\ cres' = [cres EXCEPT ![c] = Fail]
  /\ cVia' = [cVia EXCEPT ![c] = "ctx"]
  /\ cpc' = [cpc EXCEPT ![c] = "done"]
  /\ UNCHANGED <<qvars, cSession, cPending, ch, wvars, svars, lastUpdate, cItem, cLate>>
  /\ UNCHANGED <<okSpawns, mvars>>

(* ----------------------------- processLoop ----------------------------- *)
\* processLoop, line 183: if q.isShutdown || len(q.items) == 0
LoopExits == isShutdown \/ Len(items) = 0

\* Bug: the worker takes the newest item.
DequeueLast == Len(items)

\* processLoop, lines 190-191: the position in q.items of the item taken.
DequeueIndex == 1

RemoveAt(s, k) == SubSeq(s, 1, k - 1) \o SubSeq(s, k + 1, Len(s))

\* Bug: >= in place of >.
IsStaleAtThreshold(age) == age >= StaleThreshold

\* processLoop, line 197: time.Since(item.enqueuedAt) > q.staleThreshold
IsStale(age) == age > StaleThreshold

\* processLoop, lines 182-194: the head of the loop, under the lock.
WorkerLoop(w) ==
  /\ wpc[w] = "loop"
  /\ IF LoopExits
       THEN /\ wPending' = [wPending EXCEPT ![w] = pendingCountLocked(items, inFlight)]
            /\ wpc' = [wpc EXCEPT ![w] = "exitNotify"]
            /\ UNCHANGED <<items, inFlight, wItem, wStaleAtDeq>>
       ELSE /\ items' = RemoveAt(items, DequeueIndex)
            /\ inFlight' = items[DequeueIndex]
            /\ wItem' = [wItem EXCEPT ![w] = items[DequeueIndex]]
            /\ wPending' = [wPending EXCEPT ![w] = pendingCountLocked(items', inFlight')]
            /\ wStaleAtDeq' = [wStaleAtDeq EXCEPT ![w] =
                                 heap[items[DequeueIndex]].age > StaleThreshold]
            /\ wpc' = [wpc EXCEPT ![w] = "deqNotify"]
  /\ UNCHANGED <<pendingBySession, isProcessing, isShutdown, heap, nItems, cvars,
                 wAttempt, wRes, wLog, svars, ovars>>
  /\ UNCHANGED <<okSpawns, mvars>>

\* processLoop, line 186: q.notifyUpdate(pending), then return.
WorkerExitNotify(w) ==
  /\ wpc[w] = "exitNotify"
  /\ notifyUpdate(wPending[w])
  /\ wPending' = [wPending EXCEPT ![w] = 0]
  /\ wpc' = [wpc EXCEPT ![w] = "defer"]
  /\ UNCHANGED <<qvars, cvars, wItem, wAttempt, wRes, wLog, wStaleAtDeq, svars,
                 cItem, cLate, cVia>>
  /\ UNCHANGED <<okSpawns, mvars>>

\* processLoop, line 174: empty := len(q.items) == 0 && q.inFlight == nil
DeferEmpty == Len(items) = 0 /\ inFlight = None

\* processLoop, lines 172-175: the deferred function's critical section.
WorkerDefer(w) ==
  /\ wpc[w] = "defer"
  /\ isProcessing' = FALSE
  /\ wpc' = [wpc EXCEPT ![w] = IF DeferEmpty THEN "drained" ELSE "none"]
  /\ UNCHANGED <<items, pendingBySession, inFlight, isShutdown, heap, nItems, cvars,
                 wItem, wAttempt, wRes, wPending, wLog, wStaleAtDeq, svars, ovars>>
  /\ UNCHANGED <<okSpawns, mvars>>

\* layoutDebounceMs in clock ticks (cfg.LayoutDebounceMs, positive).
LayoutDebounce == 2

\* Bug: the timer that m.layoutTimer points to is left running.
StopTimerNever(armed, cur) == armed

\* (*time.Timer).Stop on m.layoutTimer, clearTimeout(layoutDebounceTimer):
\* an armed timer is disarmed; a nil, stopped or expired one is left as it is.
StopTimer(armed, cur) == IF cur THEN SubSeq(armed, 1, Len(armed) - 1) ELSE armed

\* scheduleLayout, lines 247-260, and scheduleDebouncedLayout: one critical
\* section of m.mu (one callback in TypeScript).  The timer in m.layoutTimer
\* is stopped and a new one is armed in its place; ApplyLayout is not called.
scheduleLayout ==
  /\ ltArmed' = Append(StopTimer(ltArmed, ltCur), 0)
  /\ ltCur' = TRUE
  /\ ltBurst' = IF ltArmed = <<>> THEN 1 ELSE ltBurst + 1
  /\ UNCHANGED <<ltDue, layoutRuns>>

\* processLoop, lines 176-178: q.onQueueDrained(), which is the manager's
\* scheduleLayout; the goroutine ends.  The queue's state is untouched.
WorkerDrained(w) ==
  /\ wpc[w] = "drained"
  /\ wpc' = [wpc EXCEPT ![w] = "none"]
  /\ scheduleLayout
  /\ UNCHANGED <<qvars, cvars, wItem, wAttempt, wRes, wPending, wLog, wStaleAtDeq,
                 svars, ovars>>
  /\ UNCHANGED <<okSpawns, mgrvars, rvars, ctlvars, panevars, cfgs, ravars, chvars>>

\* processLoop, line 196: q.notifyUpdate(pending) after the dequeue.
WorkerDeqNotify(w) ==
  /\ wpc[w] = "deqNotify"
  /\ notifyUpdate(wPending[w])
  /\ wPending' = [wPending EXCEPT ![w] = 0]
  /\ wpc' = [wpc EXCEPT ![w] = "staleCheck"]
  /\ UNCHANGED <<qvars, cvars, wItem, wAttempt, wRes, wLog, wStaleAtDeq, svars,
                 cItem, cLate, cVia>>
  /\ UNCHANGED <<okSpawns, mvars>>

\* processLoop, line 197: the staleness test; processItem starts at attempt 0
\* with result = SpawnResult{Success: false} (line 227).  The item's age is
\* not read again.
WorkerStaleCheck(w) ==
  /\ wpc[w] = "staleCheck"
  /\ wpc' = [wpc EXCEPT ![w] = IF IsStale(heap[wItem[w]].age)
                                 THEN "staleResolve" ELSE "check"]
  /\ heap' = [heap EXCEPT ![wItem[w]].age = 0]
  /\ UNCHANGED <<items, pendingBySession, inFlight, isProcessing, isShutdown, nItems,
                 cvars, wItem, wAttempt, wRes, wPending, wLog, wStaleAtDeq, svars, ovars>>
  /\ UNCHANGED <<okSpawns, mvars>>

\* processLoop, line 198: q.resolveItem(item, SpawnResult{Success: false})
WorkerStaleResolve(w) ==
  /\ wpc[w] = "staleResolve"
  /\ wpc' = [wpc EXCEPT ![w] = "staleCleanup"]
  /\ UNCHANGED <<items, pendingBySession, inFlight, isProcessing, isShutdown, nItems,
                 cpc, cSession, cPending, cres, wItem, wAttempt, wRes, wPending,
                 wLog, wStaleAtDeq, svars, ovars>>
  /\ resolveItem(wItem[w], Fail)
  /\ UNCHANGED okSpawns

\* processLoop, lines 200-203 and 212-215: the item leaves inFlight and the
\* dedup index; the worker's `item` is dead from here on.
Release(w) ==
  /\ inFlight' = IF inFlight = wItem[w] THEN None ELSE inFlight
  /\ pendingBySession' = [pendingBySession EXCEPT ![heap[wItem[w]].sessionID] = None]
  /\ wItem' = [wItem EXCEPT ![w] = None]
  /\ wLog' = [wLog EXCEPT ![w] = <<>>]
  /\ wStaleAtDeq' = [wStaleAtDeq EXCEPT ![w] = FALSE]
  /\ heap' = Collect(heap)

\* processLoop, lines 199-205: then `continue`.
WorkerStaleCleanup(w) ==
  /\ wpc[w] = "staleCleanup"
  /\ wpc' = [wpc EXCEPT ![w] = "loop"]
  /\ UNCHANGED <<items, isProcessing, isShutdown, nItems, cvars, wAttempt, wRes,
                 wPending, svars, ovars>>
  /\ Release(w)
  /\ UNCHANGED <<okSpawns, mvars>>

(* ----------------------------- processItem ----------------------------- *)
\* Bug: one attempt too many.
MoreAttemptsOffByOne(attempt) == attempt <= MaxRetries + 1

\* processItem, line 228: attempt <= q.maxRetries
MoreAttempts(attempt) == attempt <= MaxRetries

\* processItem, line 242: RetryCount: attempt
RetryCount(attempt) == attempt

\* processItem, line 247: attempt < q.maxRetries
BacksOff(attempt) == attempt < MaxRetries

\* processItem, lines 228-237: the loop condition, then the isShutdown read
\* under the lock.  The spawn function is set (the manager always sets it).
WorkerCheck(w) ==
  /\ wpc[w] = "check"
  /\ IF ~MoreAttempts(wAttempt[w])
       THEN /\ wpc' = [wpc EXCEPT ![w] = "resolve"]
            /\ UNCHANGED wRes
       ELSE IF isShutdown
         THEN /\ wRes' = [wRes EXCEPT ![w] = Fail]
              /\ wpc' = [wpc EXCEPT ![w] = "resolve"]
         ELSE /\ wpc' = [wpc EXCEPT ![w] = "call"]
              /\ UNCHANGED wRes
  /\ UNCHANGED <<qvars, cvars, wItem, wAttempt, wPending, wLog, wStaleAtDeq, svars,
                 ovars>>
  /\ UNCHANGED <<okSpawns, mvars>>

\* processItem, line 238: the spawn function is called.
WorkerCall(w) ==
  /\ wpc[w] = "call"
  /\ wLog' = [wLog EXCEPT ![w] = Append(@, [retryCount |-> RetryCount(wAttempt[w]),
                                            res |-> "running"])]
  /\ wpc' = [wpc EXCEPT ![w] = "inSpawn"]
  /\ UNCHANGED <<qvars, cvars, wItem, wAttempt, wRes, wPending, wStaleAtDeq, svars,
                 ovars>>
  /\ UNCHANGED <<okSpawns, mvars>>

\* processItem, lines 238-250: the spawn function returns; on failure the
\* worker backs off or leaves the loop through attempt++.
WorkerReturn(w, ok) ==
  /\ wpc[w] = "inSpawn"
  /\ wLog' = [wLog EXCEPT ![w][Len(wLog[w])].res = IF ok THEN "ok" ELSE "fail"]
  /\ wRes' = [wRes EXCEPT ![w] = IF ok THEN Ok(wItem[w]) ELSE Fail]
  /\ IF ok
       THEN /\ wpc' = [wpc EXCEPT ![w] = "resolve"]
            /\ UNCHANGED wAttempt
       ELSE IF BacksOff(wAttempt[w])
         THEN /\ wpc' = [wpc EXCEPT ![w] = "backoff"]
              /\ UNCHANGED wAttempt
         ELSE /\ wpc' = [wpc EXCEPT ![w] = "check"]
              /\ wAttempt' = [wAttempt EXCEPT ![w] = @ + 1]
  /\ okSpawns' = [okSpawns EXCEPT ![heap[wItem[w]].sessionID] =
                                   IF ok /\ @ < 2 THEN @ + 1 ELSE @]
  /\ UNCHANGED <<qvars, cvars, wItem, wPending, wStaleAtDeq, svars,
                 lastUpdate, cItem, cLate, cVia, mvars>>

\* processItem, line 249: time.Sleep(backoff) ends; attempt++.
WorkerBackoff(w) ==
  /\ wpc[w] = "backoff"
  /\ wAttempt' = [wAttempt EXCEPT ![w] = @ + 1]
  /\ wpc' = [wpc EXCEPT ![w] = "check"]
  /\ UNCHANGED <<qvars, cvars, wItem, wRes, wPending, wLog, wStaleAtDeq, svars,
                 ovars>>
  /\ UNCHANGED <<okSpawns, mvars>>

\* processLoop, lines 208-209: processItem has returned `res`;
\* q.resolveItem(item, res).
WorkerResolve(w) ==
  /\ wpc[w] = "resolve"
  /\ wRes' = [wRes EXCEPT ![w] = Fail]
  /\ wAttempt' = [wAttempt EXCEPT ![w] = 0]
  /\ wpc' = [wpc EXCEPT ![w] = "cleanup"]
  /\ UNCHANGED <<items, pendingBySession, inFlight, isProcessing, isShutdown, nItems,
                 cpc, cSession, cPending, cres, wItem, wPending, wLog, wStaleAtDeq,
                 svars, ovars>>
  /\ resolveItem(wItem[w], wRes[w])
  /\ UNCHANGED okSpawns

\* processLoop, line 220: if !isShutdown && hasNext
SleepsBeforeNext == ~isShutdown /\ Len(items) > 0

\* processLoop, lines 211-222.
WorkerCleanup(w) ==
  /\ wpc[w] = "cleanup"
  /\ wpc' = [wpc EXCEPT ![w] = IF SleepsBeforeNext THEN "delay" ELSE "loop"]
  /\ UNCHANGED <<items, isProcessing, isShutdown, nItems, cvars, wAttempt, wRes,
                 wPending, svars, ovars>>
  /\ Release(w)
  /\ UNCHANGED <<okSpawns, mvars>>

\* processLoop, line 221: time.Sleep(q.spawnDelay) ends.
WorkerDelay(w) ==
  /\ wpc[w] = "delay"
  /\ wpc' = [wpc EXCEPT ![w] = "loop"]
  /\ UNCHANGED <<qvars, cvars, wItem, wAttempt, wRes, wPending, wLog, wStaleAtDeq,
                 svars, ovars>>
  /\ UNCHANGED <<okSpawns, mvars>>

(* ------------------------------ Shutdown ------------------------------- *)
\* Shutdown, lines 135-150: the critical section.  A second call finds
\* isShutdown set and returns at once, changing nothing.
ShutdownLock ==
  /\ sdpc = "idle"
  /\ ~isShutdown
  /\ isShutdown' = TRUE
  /\ toResolve' = {pendingBySession[s] : s \in Sessions} \ {None}
  /\ items' = <<>>
  /\ pendingBySession' = [s \in Sessions |-> None]
  /\ inFlight' = None
  /\ sdpc' = "resolve"
  /\ UNCHANGED <<isProcessing, heap, nItems, cvars, wvars, ovars>>
  /\ UNCHANGED <<okSpawns, mvars>>

\* Shutdown, lines 152-154: one turn of the loop; a map is ranged over in
\* any order.
ShutdownResolve(i) ==
  /\ sdpc = "resolve"
  /\ i \in toResolve
  /\ toResolve' = toResolve \ {i}
  /\ UNCHANGED <<items, pendingBySession, inFlight, isProcessing, isShutdown, nItems,
                 cpc, cSession, cPending, cres, wvars, sdpc, ovars>>
  /\ resolveItem(i, Fail)
  /\ UNCHANGED okSpawns

\* Shutdown, line 155: q.notifyUpdate(0), then return.
ShutdownNotify ==
  /\ sdpc = "resolve"
  /\ toResolve = {}
  /\ notifyUpdate(0)
  /\ sdpc' = "done"
  /\ UNCHANGED <<qvars, cvars, wvars, toResolve, cItem, cLate, cVia>>
  /\ UNCHANGED <<okSpawns, mvars>>

\* Shutdown calls after the first one that are modelled.
MaxAgain == 1

\* Shutdown, lines 135-139: a call that finds q.isShutdown set returns.
ShutdownAgain ==
  /\ isShutdown
  /\ sdAgain < MaxAgain
  /\ sdAgain' = sdAgain + 1
  /\ UNCHANGED <<qvars, cvars, wvars, svars, ovars, mgrvars, rvars, ctlvars, panevars,
                 cfgs, ravars, sent, ltvars>>

(* ------------------------------- time ---------------------------------- *)
\* The items whose age is still to be read: those queued, and the one
\* dequeued and not yet tested.
Aging ==
  Range(items) \cup {wItem[w] : w \in {v \in Workers : wpc[v] \in {"deqNotify", "staleCheck"}}}

\* One tick of the clock.
Tick ==
  /\ \E i \in Aging : heap[i].age <= StaleThreshold
  /\ heap' = [i \in ItemIds |->
                IF i \in Aging /\ heap[i].age <= StaleThreshold
                  THEN [heap[i] EXCEPT !.age = @ + 1] ELSE heap[i]]
  /\ UNCHANGED <<items, pendingBySession, inFlight, isProcessing, isShutdown, nItems,
                 cvars, wvars, svars, ovars>>
  /\ UNCHANGED <<okSpawns, mvars>>

(* ------------------------- session manager ----------------------------- *)
\* The events sent to OnSessionCreated: for every session id a well-formed
\* one, one of another type and one without parent; and one without id.
Events ==
  [type : {"session.created", "session.idle"}, id : Sessions, parentId : {"parent"}]
    \cup [type : {"session.created"}, id : Sessions, parentId : {""}]
    \cup [type : {"session.created"}, id : {None}, parentId : {"parent"}]

\* New, line 64: enabled: cfg.Enabled && tmux.IsInsideTmux()
enabled == cfgEnabled /\ insideTmux

\* Bug: an event without parent is accepted.
AcceptsOrphan(ev) == enabled /\ ev.type = "session.created" /\ ev.id # None

\* OnSessionCreated, line 94, negated.
Accepts(ev) ==
  enabled /\ ev.type = "session.created" /\ ev.id # None /\ ev.parentId # ""

\* Bug: only the tracked sessions count as duplicates.
IsTrackedOnly(id) == sessions[id] # NoSession

\* OnSessionCreated, lines 99 and 103: the id is tracked or pending.
IsDuplicate(id) == sessions[id] # NoSession \/ id \in pending

\* Events arrive in the order of the callers' ids, and a session id appears
\* in an event only after the smaller ids did.
MayArrive(c, ev) ==
  /\ \A d \in Callers : d < c => mpc[d] # "idle"
  /\ \A r \in Sessions : r < ev.id => \E d \in Callers : mEvent[d].id = r

\* A pollLoop goroutine has hit the nil ticker: the process has died.
Panicked == \E p \in Pollers : ppc[p] = "panic"

\* OnSessionCreated, lines 94-109: the event is refused, or marked pending.
MgrAccept(c, ev) ==
  /\ ~Panicked
  /\ mpc[c] = "idle"
  /\ MayArrive(c, ev)
  /\ mEvent' = [mEvent EXCEPT ![c] = ev]
  /\ IF Accepts(ev) /\ ~IsDuplicate(ev.id)
       THEN /\ pending' = pending \cup {ev.id}
            /\ mpc' = [mpc EXCEPT ![c] = "enqueue"]
       ELSE /\ mpc' = [mpc EXCEPT ![c] = "done"]
            /\ UNCHANGED pending
  /\ UNCHANGED <<qvars, cvars, wvars, svars, ovars, rvars, others, cuvars, cfgEnabled, insideTmux, sessions,
                 ticker, mRet, clvars, closeCount, pvars>>

\* OnSessionCreated, line 116: the call m.queue.Enqueue(ctx, event.ID, title)
\* takes the queue's lock.
MgrEnqueue(c) ==
  /\ mpc[c] = "enqueue"
  /\ EnqueueLock(c, mEvent[c].id)

\* Bug: the session is tracked whatever the result.
TracksAlways(res) == TRUE

\* OnSessionCreated, line 121: result.Success && result.PaneID != ""
Tracks(res) == res.success /\ res.paneId # None

\* The goroutine `go m.pollLoop()` gets the least free slot.
FreePoller ==
  CHOOSE p \in Pollers : ppc[p] = "none" /\ \A q \in Pollers : ppc[q] = "none" => p <= q

\* OnSessionCreated, lines 118-139: Enqueue has returned `result`.  The new
\* trackedSession has CreatedAt = LastSeenAt = now and no MissingSince; a
\* ticker and its pollLoop are started when m.ticker is nil.
MgrFinish(c) ==
  /\ ~Panicked
  /\ mpc[c] = "enqueue"
  /\ cpc[c] = "done"
  /\ pending' = pending \ {mEvent[c].id}
  /\ IF Tracks(cres[c])
       THEN /\ sessions' = [sessions EXCEPT ![mEvent[c].id] =
                              [paneId |-> cres[c].paneId, created |-> 0,
                               seen |-> 0, missing |-> NoTime]]
            /\ ticker' = TRUE
            /\ IF ticker
                 THEN UNCHANGED ppc
                 ELSE /\ \E p \in Pollers : ppc[p] = "none"
                      /\ ppc' = [ppc EXCEPT ![FreePoller] = "loop"]
       ELSE UNCHANGED <<sessions, ticker, ppc>>
  /\ mRet' = [mRet EXCEPT ![c] = cres[c].success]
  /\ mpc' = [mpc EXCEPT ![c] = "done"]
  /\ UNCHANGED <<qvars, cvars, wvars, svars, ovars, rvars, others, cuvars, cfgEnabled, insideTmux, mEvent,
                 clvars, closeCount, pFetch, pStatuses, pToClose, pDecided, pRemoved>>

(* ----------------------------- CloseSession ---------------------------- *)
\* CloseSession, lines 227-235, by closer k: the tracked session is taken out
\* of m.sessions (a session that is not tracked ends the call).
CloseSessionLock(k, s) ==
  /\ clpc[k] = "idle"
  /\ sessions[s] # NoSession
  /\ clSession' = [clSession EXCEPT ![k] = s]
  /\ clPane' = [clPane EXCEPT ![k] = sessions[s].paneId]
  /\ sessions' = [sessions EXCEPT ![s] = NoSession]
  /\ okSpawns' = [okSpawns EXCEPT ![s] = 0]
  /\ clpc' = [clpc EXCEPT ![k] = "closePane"]
  /\ UNCHANGED <<qvars, cvars, wvars, svars, lastUpdate, cItem, cLate, cVia,
                 rvars, others, cfgEnabled, insideTmux, pending, ticker, mpc, mEvent, mRet, closeCount>>

\* CloseSession called from outside the poll loop.
CloseSessionCall(s) ==
  /\ CloseSessionLock(0, s)
  /\ UNCHANGED <<pvars, cuvars>>

\* CloseSession, line 237: tmux.ClosePane(tracked.PaneID, m.cfg)
CloseSessionPane(k) ==
  /\ clpc[k] = "closePane"
  /\ closeCount' = [closeCount EXCEPT ![clPane[k]] = IF @ < 2 THEN @ + 1 ELSE @]
  /\ clpc' = [clpc EXCEPT ![k] = "stopTicker"]
  /\ UNCHANGED <<qvars, cvars, wvars, svars, ovars, rvars, others, cuvars, cfgEnabled, insideTmux, sessions,
                 pending, ticker, mpc, mEvent, mRet, clSession, clPane, pvars>>

\* CloseSession, line 237, with the call spelled out: tmux.ClosePane is
\* entered with the tracked pane id (never empty, line 121); ClosePane,
\* lines 229-235, returns false at once when no tmux binary is found.
CloseSessionPaneCall(k) ==
  /\ clpc[k] = "closePane"
  /\ cppc = "idle"
  /\ clpc' = [clpc EXCEPT ![k] = "inClosePane"]
  /\ \E tmuxPath \in {"", "/usr/bin/tmux"} :
       IF tmuxPath = ""
         THEN cpRet' = FALSE /\ cppc' = "done"
         ELSE cpRet' = cpRet /\ cppc' = "listPanes"
  /\ UNCHANGED <<qvars, cvars, wvars, svars, ovars, rvars, ctlvars, cfgs, ravars, chvars,
                 ltvars, cuvars, cfgEnabled, insideTmux, sessions, pending, ticker, mpc,
                 mEvent, mRet, clSession, clPane, closeCount, pvars,
                 cpImpl, cpTodo, cpChild, cpLog, kids>>

\* CloseSession, lines 237-238: ClosePane has returned; its result is
\* dropped and the lock is taken again.
CloseSessionPaneReturn(k) ==
  /\ clpc[k] = "inClosePane"
  /\ cppc = "done"
  /\ closeCount' = [closeCount EXCEPT ![clPane[k]] = IF @ < 2 THEN @ + 1 ELSE @]
  /\ clpc' = [clpc EXCEPT ![k] = "stopTicker"]
  /\ cppc' = "idle"
  /\ cpTodo' = <<>>
  /\ cpChild' = NoChild
  /\ cpLog' = <<>>
  /\ cpRet' = "none"
  /\ UNCHANGED <<qvars, cvars, wvars, svars, ovars, rvars, ctlvars, cfgs, ravars, chvars,
                 ltvars, cuvars, cfgEnabled, insideTmux, sessions, pending, ticker, mpc,
                 mEvent, mRet, clSession, clPane, pvars, cpImpl, kids>>

\* CloseSession, line 240: len(m.sessions) == 0 && m.ticker != nil
StopsTicker == ticker /\ \A s \in Sessions : sessions[s] = NoSession

\* CloseSession, lines 239-244: the ticker is stopped and set to nil with
\* the last session.  A pollLoop waiting on the ticker's channel now waits on
\* a stopped ticker.
CloseSessionStop(k) ==
  /\ clpc[k] = "stopTicker"
  /\ IF StopsTicker
       THEN /\ ticker' = FALSE
            /\ ppc' = [p \in Pollers |-> IF ppc[p] = "select" THEN "stopped" ELSE ppc[p]]
       ELSE UNCHANGED <<ticker, ppc>>
  /\ clpc' = [clpc EXCEPT ![k] = "idle"]
  /\ clSession' = [clSession EXCEPT ![k] = None]
  /\ clPane' = [clPane EXCEPT ![k] = None]
  /\ UNCHANGED <<qvars, cvars, wvars, svars, ovars, rvars, others, cuvars, cfgEnabled, insideTmux, sessions,
                 pending, mpc, mEvent, mRet, closeCount, pFetch, pStatuses, pToClose,
                 pDecided, pRemoved>>

(* ------------------------------- Cleanup ------------------------------- *)
\* Cleanup, lines 263-274: m.done is closed, the ticker and the layout timer
\* are stopped (m.ticker keeps its value), and m.queue.Shutdown() is called.
CleanupStart ==
  /\ cupc = "idle"
  /\ mDone' = TRUE
  /\ cupc' = "shutdown"
  /\ ltArmed' = StopTimer(ltArmed, ltCur)
  /\ ltCur' = FALSE
  /\ UNCHANGED <<qvars, cvars, wvars, svars, ovars, rvars, ctlvars, panevars, cfgs, ravars,
                 chvars, ltDue, layoutRuns, ltBurst, cuIds, cfgEnabled, insideTmux,
                 sessions, pending, ticker, mpc, mEvent, mRet, clvars, closeCount, pvars>>

\* Cleanup, line 275: the steps of m.queue.Shutdown().
CleanupShutdown(i) ==
  /\ cupc = "shutdown"
  /\ \/ ShutdownLock
     \/ ShutdownResolve(i)
     \/ ShutdownNotify

\* Cleanup, lines 276-283: Shutdown has returned; m.reaper.Stop(), then the
\* ids of the tracked sessions are copied under the lock.
CleanupSnapshot ==
  /\ cupc = "shutdown"
  /\ sdpc = "done"
  /\ cuIds' = {s \in Sessions : sessions[s] # NoSession}
  /\ cupc' = "closing"
  /\ UNCHANGED <<qvars, cvars, wvars, svars, ovars, rvars, others, mDone, cfgEnabled, insideTmux,
                 sessions, pending, ticker, mpc, mEvent, mRet, clvars, closeCount, pvars>>

\* Cleanup, lines 285-287: m.CloseSession(sessionID) for the next id; a map
\* is ranged over in any order.  CloseSession returns at once when the
\* session is not tracked any more.
CleanupClose(s) ==
  /\ cupc = "closing"
  /\ s \in cuIds
  /\ clpc[0] = "idle"
  /\ cuIds' = cuIds \ {s}
  /\ IF sessions[s] # NoSession
       THEN CloseSessionLock(0, s)
       ELSE UNCHANGED <<qvars, cvars, wvars, svars, ovars, rvars, others, cfgEnabled, insideTmux,
                        sessions, pending, ticker, mpc, mEvent, mRet, clvars, closeCount>>
  /\ UNCHANGED <<pvars, cupc, mDone>>

\* Cleanup, line 288: the last CloseSession has returned, and so does Cleanup.
CleanupReturn ==
  /\ cupc = "closing"
  /\ cuIds = {}
  /\ clpc[0] = "idle"
  /\ cupc' = "done"
  /\ UNCHANGED <<qvars, cvars, wvars, svars, ovars, rvars, others, cuIds, mDone, cfgEnabled,
                 insideTmux, sessions, pending, ticker, mpc, mEvent, mRet, clvars,
                 closeCount, pvars>>

(* ---------------------------- layout timer ----------------------------- *)
beyondLayout == <<qvars, cvars, wvars, svars, ovars, mgrvars, rvars, ctlvars, panevars,
                  cfgs, ravars, chvars>>

\* Bug: a timer may expire as soon as it is armed.
ExpiresAtOnce(age) == TRUE

\* time.AfterFunc(debounce, f), setTimeout(f, debounceMs): the timer expires
\* when `debounce` has passed since it was armed.
Expires(age) == age >= LayoutDebounce

\* One tick of the clock for the armed timers; a timer that is to expire
\* does so before the clock goes on.
LayoutTick ==
  /\ ltArmed # <<>>
  /\ \A k \in 1..Len(ltArmed) : ~Expires(ltArmed[k])
  /\ ltArmed' = [k \in 1..Len(ltArmed) |-> ltArmed[k] + 1]
  /\ UNCHANGED <<ltCur, ltDue, layoutRuns, ltBurst, beyondLayout>>

\* The oldest armed timer expires: its function is started in a goroutine
\* of its own (put on the event loop).  m.layoutTimer keeps pointing to it.
LayoutExpire ==
  /\ ltArmed # <<>>
  /\ Expires(Head(ltArmed))
  /\ ltArmed' = Tail(ltArmed)
  /\ ltCur' = (ltCur /\ Len(ltArmed) > 1)
  /\ ltDue' = ltDue + 1
  /\ UNCHANGED <<layoutRuns, ltBurst, beyondLayout>>

\* scheduleLayout, lines 256-258: the timer's function runs
\* tmux.ApplyLayout(m.cfg).
LayoutApply ==
  /\ ltDue > 0
  /\ ltDue' = ltDue - 1
  /\ layoutRuns' = layoutRuns + 1
  /\ UNCHANGED <<ltArmed, ltCur, ltBurst, beyondLayout>>

(* ------------------------------- poller -------------------------------- *)
\* Enqueue as the manager sees it when the queue is left out: the call
\* returns the pane of a new item, or failure.
EnqueueResult(c, ok) ==
  /\ ~Panicked
  /\ mpc[c] = "enqueue"
  /\ cpc[c] = "idle"
  /\ ok => nItems < MaxCalls
  /\ nItems' = IF ok THEN nItems + 1 ELSE nItems
  /\ cres' = [cres EXCEPT ![c] = IF ok THEN Ok(nItems + 1) ELSE Fail]
  /\ cpc' = [cpc EXCEPT ![c] = "done"]
  /\ UNCHANGED <<items, pendingBySession, inFlight, isProcessing, isShutdown, heap,
                 cSession, cPending, ch, wvars, svars, ovars, mvars>>

\* pollLoop, line 145: the select statement evaluates m.ticker.C; a nil
\* m.ticker is a nil pointer dereference.
PollEval(p) ==
  /\ ~Panicked
  /\ ppc[p] = "loop"
  /\ ppc' = [ppc EXCEPT ![p] = IF ticker THEN "select" ELSE "panic"]
  /\ pFetch' = [pFetch EXCEPT ![p] = "none"]
  /\ UNCHANGED <<qvars, cvars, wvars, svars, ovars, rvars, others, cuvars, cfgEnabled, insideTmux, sessions,
                 pending, ticker, mpc, mEvent, mRet, clvars, closeCount,
                 pStatuses, pToClose, pDecided, pRemoved>>

\* pollLoop, lines 145-146: a tick is received (from a stopped ticker, the
\* tick that was already in its channel) and pollOnce is called; pollOnce,
\* lines 154-159, returns when no session is tracked.
PollTickReceived(p) ==
  /\ ~Panicked
  /\ ppc[p] \in {"select", "stopped"}
  /\ ppc' = [ppc EXCEPT ![p] =
               IF \A s \in Sessions : sessions[s] = NoSession THEN "loop" ELSE "fetch"]
  /\ UNCHANGED <<qvars, cvars, wvars, svars, ovars, rvars, others, cuvars, cfgEnabled, insideTmux, sessions,
                 pending, ticker, mpc, mEvent, mRet, clvars, closeCount, pFetch,
                 pStatuses, pToClose, pDecided, pRemoved>>

\* fetchStatuses, lines 194-224: the ways the request can end.
FetchOutcomes == {"ok", "transport error", "status not 2xx", "undecodable body"}

\* Bug: pollOnce goes on after a failed fetch, with its nil map.
SkipsNever(fetched) == FALSE

\* pollOnce, line 162: if !ok
Skips(fetched) == fetched # "ok"

\* pollOnce, lines 161-164, with fetchStatuses: the request ends in `outcome`,
\* with the status types st when it succeeds and a nil map otherwise; a
\* failed fetch ends the tick.
PollFetch(p, outcome, st) ==
  /\ ~Panicked
  /\ ppc[p] = "fetch"
  /\ outcome # "ok" => st = NoStatuses
  /\ pFetch' = [pFetch EXCEPT ![p] = IF outcome = "ok" THEN "ok" ELSE "failed"]
  /\ IF Skips(pFetch'[p])
       THEN /\ ppc' = [ppc EXCEPT ![p] = "loop"]
            /\ UNCHANGED pStatuses
       ELSE /\ ppc' = [ppc EXCEPT ![p] = "decide"]
            /\ pStatuses' = [pStatuses EXCEPT ![p] = st]
  /\ UNCHANGED <<qvars, cvars, wvars, svars, ovars, rvars, others, cuvars, cfgEnabled, insideTmux, sessions,
                 pending, ticker, mpc, mEvent, mRet, clvars, closeCount,
                 pToClose, pDecided, pRemoved>>

\* Bug: every poll without entry restarts the grace period.
TouchRestarts(t, st) ==
  IF st # "absent" THEN [t EXCEPT !.seen = 0, !.missing = NoTime]
  ELSE [t EXCEPT !.missing = 0]

\* pollOnce, lines 173-179: a session with a status entry is seen now and is
\* not missing; one without entry is missing since now unless it already is.
Touch(t, st) ==
  IF st # "absent" THEN [t EXCEPT !.seen = 0, !.missing = NoTime]
  ELSE IF t.missing = NoTime THEN [t EXCEPT !.missing = 0]
  ELSE t

\* pollOnce, lines 172 and 181-183, on the session as Touch left it:
\* isIdle || missingTooLong || isTimedOut
Marked(t, st) ==
  \/ st = "idle"
  \/ t.missing # NoTime /\ t.missing >= MissingGrace
  \/ t.created >= SessionTimeout

\* pollOnce, lines 166-187: the critical section over m.sessions.
PollDecide(p) ==
  /\ ~Panicked
  /\ ppc[p] = "decide"
  /\ sessions' = [s \in Sessions |->
                    IF sessions[s] = NoSession THEN NoSession
                    ELSE Touch(sessions[s], pStatuses[p][s])]
  /\ pToClose' = [pToClose EXCEPT ![p] =
                    {s \in Sessions : /\ sessions[s] # NoSession
                                      /\ Marked(sessions'[s], pStatuses[p][s])}]
  /\ pDecided' = [pDecided EXCEPT ![p] =
                    {<<s, sessions[s].paneId>> : s \in pToClose'[p]}]
  /\ pStatuses' = [pStatuses EXCEPT ![p] = NoStatuses]
  /\ pFetch' = [pFetch EXCEPT ![p] = "none"]
  /\ ppc' = [ppc EXCEPT ![p] = "close"]
  /\ UNCHANGED <<qvars, cvars, wvars, svars, ovars, rvars, others, cuvars, cfgEnabled, insideTmux,
                 pending, ticker, mpc, mEvent, mRet, clvars, closeCount, pRemoved>>

\* pollOnce, lines 189-191: m.CloseSession(sessionID) for the next element
\* of toClose (Go's map iteration gives them in any order), a tracked one.
PollCloseSession(p, s) ==
  /\ ~Panicked
  /\ ppc[p] = "close"
  /\ s \in pToClose[p]
  /\ CloseSessionLock(p, s)
  /\ pToClose' = [pToClose EXCEPT ![p] = @ \ {s}]
  /\ pRemoved' = [pRemoved EXCEPT ![p] = @ \cup {<<s, sessions[s].paneId>>}]
  /\ UNCHANGED <<ppc, pFetch, pStatuses, pDecided, cuvars>>

\* pollOnce, line 190, and CloseSession, lines 228-232: the session is not
\* tracked any more and the call returns.
PollCloseGone(p, s) ==
  /\ ~Panicked
  /\ ppc[p] = "close"
  /\ s \in pToClose[p]
  /\ clpc[p] = "idle"
  /\ sessions[s] = NoSession
  /\ pToClose' = [pToClose EXCEPT ![p] = @ \ {s}]
  /\ UNCHANGED <<qvars, cvars, wvars, svars, ovars, rvars, others, cuvars, cfgEnabled, insideTmux, sessions,
                 pending, ticker, mpc, mEvent, mRet, clvars, closeCount, ppc,
                 pFetch, pStatuses, pDecided, pRemoved>>

\* pollOnce, line 192: toClose is exhausted and pollOnce returns.
PollReturn(p) ==
  /\ ~Panicked
  /\ ppc[p] = "close"
  /\ pToClose[p] = {}
  /\ clpc[p] = "idle"
  /\ ppc' = [ppc EXCEPT ![p] = "loop"]
  /\ pDecided' = [pDecided EXCEPT ![p] = {}]
  /\ pRemoved' = [pRemoved EXCEPT ![p] = {}]
  /\ UNCHANGED <<qvars, cvars, wvars, svars, ovars, rvars, others, cuvars, cfgEnabled, insideTmux, sessions,
                 pending, ticker, mpc, mEvent, mRet, clvars, closeCount,
                 pFetch, pStatuses, pToClose>>

\* The age after one tick, counted up to `cap`.
Older(age, cap) == IF age < cap THEN age + 1 ELSE age

\* One tick of the clock for the tracked sessions.
PollTick ==
  /\ ~Panicked
  /\ sessions' = [s \in Sessions |->
                    IF sessions[s] = NoSession THEN NoSession
                    ELSE [sessions[s] EXCEPT
                            !.created = Older(@, SessionTimeout),
                            !.seen = Older(@, 1),
                            !.missing = IF @ = NoTime THEN @ ELSE Older(@, MissingGrace)]]
  /\ sessions' # sessions
  /\ UNCHANGED <<qvars, cvars, wvars, svars, ovars, rvars, others, cuvars, cfgEnabled, insideTmux,
                 pending, ticker, mpc, mEvent, mRet, clvars, closeCount, pvars>>

(* --------------------------- specification ----------------------------- *)
CallerStep(c) ==
  \/ \E s \in Sessions : MayStart(c, s) /\ EnqueueLock(c, s)
  \/ EnqueueNotify(c)
  \/ EnqueueProcessAsync(c)
  \/ EnqueueReceive(c)
  \/ EnqueueCtxDone(c)

WorkerStep(w) ==
  \/ WorkerLoop(w)
  \/ WorkerExitNotify(w)
  \/ WorkerDefer(w)
  \/ WorkerDrained(w)
  \/ WorkerDeqNotify(w)
  \/ WorkerStaleCheck(w)
  \/ WorkerStaleResolve(w)
  \/ WorkerStaleCleanup(w)
  \/ WorkerCheck(w)
  \/ WorkerCall(w)
  \/ \E ok \in BOOLEAN : WorkerReturn(w, ok)
  \/ WorkerBackoff(w)
  \/ WorkerResolve(w)
  \/ WorkerCleanup(w)
  \/ WorkerDelay(w)

ShutdownStep ==
  \/ ShutdownLock
  \/ \E i \in ItemIds : ShutdownResolve(i)
  \/ ShutdownNotify

Next ==
  \/ \E c \in Callers : CallerStep(c)
  \/ \E w \in Workers : WorkerStep(w)
  \/ ShutdownStep
  \/ Tick

Spec == Init /\ [][Next]_vars

\* The queue with Shutdown called more than once.
ShutdownNext ==
  \/ \E c \in Callers : CallerStep(c)
  \/ \E w \in Workers : WorkerStep(w)
  \/ ShutdownStep
  \/ ShutdownAgain
  \/ Tick

ShutdownSpec == Init /\ [][ShutdownNext]_vars

(* A run without Shutdown and without cancelled contexts, in which the     *)
(* spawn function always returns and every goroutine keeps being scheduled. *)
CallerLiveStep(c) ==
  \/ \E s \in Sessions : MayStart(c, s) /\ EnqueueLock(c, s)
  \/ EnqueueNotify(c)
  \/ EnqueueProcessAsync(c)
  \/ EnqueueReceive(c)

LiveNext ==
  \/ \E c \in Callers : CallerLiveStep(c)
  \/ \E w \in Workers : WorkerStep(w)
  \/ Tick

LiveSpec ==
  /\ Init
  /\ [][LiveNext]_vars
  /\ \A c \in Callers : WF_vars(CallerLiveStep(c))
  /\ \A w \in Workers : WF_vars(WorkerStep(w))

(* The queue with the manager's layout timer: the drain callbacks of the   *)
(* workers arm the timer, the clock ticks and the timers expire.            *)
LayoutNext ==
  \/ \E c \in Callers : CallerLiveStep(c)
  \/ \E w \in Workers : WorkerStep(w)
  \/ Tick
  \/ LayoutTick
  \/ LayoutExpire
  \/ LayoutApply

LayoutSpec == Init /\ [][LayoutNext]_vars

(* The manager with its queue: OnSessionCreated calls, the queue's workers, *)
(* and CloseSession calls for any tracked session; the pollLoop goroutines  *)
(* are started and do not step.                                             *)
MgrInit ==
  /\ QueueInit
  /\ \E cfgOn, inTmux \in BOOLEAN : ManagerInit(cfgOn, inTmux)
  /\ ReaperNew("go", 3, 1)
  /\ Elsewhere

MgrCallerStep(c) ==
  \/ \E ev \in Events : MgrAccept(c, ev)
  \/ MgrEnqueue(c)
  \/ EnqueueNotify(c)
  \/ EnqueueProcessAsync(c)
  \/ EnqueueReceive(c)
  \/ EnqueueCtxDone(c)
  \/ MgrFinish(c)

CloseSessionStep ==
  \/ \E s \in Sessions : CloseSessionCall(s)
  \/ CloseSessionPane(0)
  \/ CloseSessionStop(0)

MgrNext ==
  \/ \E c \in Callers : MgrCallerStep(c)
  \/ \E w \in Workers : WorkerStep(w)
  \/ CloseSessionStep
  \/ Tick

MgrSpec == MgrInit /\ [][MgrNext]_vars

(* The manager with its poller: OnSessionCreated calls whose Enqueue returns *)
(* any result, and the pollLoop goroutines.                                 *)
PollCallerStep(c) ==
  \/ \E ev \in Events : MgrAccept(c, ev)
  \/ \E ok \in BOOLEAN : EnqueueResult(c, ok)
  \/ MgrFinish(c)

PollerStep(p) ==
  \/ PollEval(p)
  \/ PollTickReceived(p)
  \/ \E outcome \in FetchOutcomes : \E st \in [Sessions -> StatusTypes] :
       PollFetch(p, outcome, st)
  \/ PollDecide(p)
  \/ \E s \in Sessions : PollCloseSession(p, s)
  \/ \E s \in Sessions : PollCloseGone(p, s)
  \/ CloseSessionPane(p)
  \/ CloseSessionStop(p)
  \/ PollReturn(p)

PollNext ==
  \/ \E c \in Callers : PollCallerStep(c)
  \/ \E p \in Pollers : PollerStep(p)
  \/ PollTick

PollSpec == Init /\ [][PollNext]_vars

(* The manager with its poller after the host is lost: sessions are still  *)
(* being tracked, every status request fails, and the pollLoop goroutines   *)
(* and the clock keep running.                                               *)
HostLostStep(p) ==
  \/ PollEval(p)
  \/ PollTickReceived(p)
  \/ \E outcome \in FetchOutcomes \ {"ok"} : PollFetch(p, outcome, NoStatuses)

HostLostNext ==
  \/ \E c \in Callers : PollCallerStep(c)
  \/ \E p \in Pollers : HostLostStep(p)
  \/ PollTick

HostLostSpec ==
  /\ Init
  /\ [][HostLostNext]_vars
  /\ \A p \in Pollers : WF_vars(HostLostStep(p))
  /\ WF_vars(PollTick)

(* The manager with its queue and one Cleanup call, made at any time: the  *)
(* OnSessionCreated calls, the queue's workers and the steps of Cleanup;    *)
(* the pollLoop goroutines are started and do not step.                     *)
CleanupStep ==
  \/ CleanupStart
  \/ \E i \in ItemIds : CleanupShutdown(i)
  \/ CleanupSnapshot
  \/ \E s \in Sessions : CleanupClose(s)
  \/ CloseSessionPane(0)
  \/ CloseSessionStop(0)
  \/ CleanupReturn

CleanupNext ==
  \/ \E c \in Callers : MgrCallerStep(c)
  \/ \E w \in Workers : WorkerStep(w)
  \/ CleanupStep
  \/ Tick

CleanupSpec == Init /\ [][CleanupNext]_vars

\* The manager with its queue, one Cleanup call and the layout timer.
LateNext ==
  \/ \E c \in Callers : MgrCallerStep(c)
  \/ \E w \in Workers : WorkerStep(w)
  \/ CleanupStep
  \/ Tick
  \/ LayoutTick
  \/ LayoutExpire
  \/ LayoutApply

LateSpec == Init /\ [][LateNext]_vars

\* The manager tracking sessions and closing them, each CloseSession with
\* the steps of its ClosePane call, on a machine where the panes' shell has
\* any children.
CloseInit ==
  /\ QueueInit
  /\ ManagerInit(TRUE, TRUE)
  /\ ReaperNew("go", 3, 1)
  /\ NewService(FALSE)
  /\ \E k \in [PaneKids -> [cmd : KidCommands, parent : {ShellPid, OtherParent},
                             alive : {TRUE}]] :
       PaneMachine("go", k)
  /\ cfgs = <<DefaultConfig>>
  /\ ReapAllIdle(NoServers)

CloseNext ==
  \/ \E c \in Callers : PollCallerStep(c)
  \/ \E s \in Sessions : CloseSessionCall(s)
  \/ CloseSessionPaneCall(0)
  \/ ClosePaneListPanes
  \/ ClosePaneChild
  \/ ClosePaneWait
  \/ ClosePaneLoopEnd
  \/ \E k \in PaneKids : KidExits(k)
  \/ ClosePaneKillPane
  \/ ClosePaneLayout
  \/ CloseSessionPaneReturn(0)
  \/ CloseSessionStop(0)

CloseSpec == CloseInit /\ [][CloseNext]_vars

\* The control service: requests arrive in any number up to MaxReqs and
\* their handlers interleave.
ControlInit ==
  /\ QueueInit
  /\ ManagerInit(TRUE, TRUE)
  /\ ReaperNew("go", 3, 1)
  /\ \E onStop \in BOOLEAN : NewService(onStop)
  /\ PaneMachine("go", NoKids)
  /\ cfgs = <<DefaultConfig>>
  /\ ReapAllIdle(NoServers)

ControlNext ==
  \/ \E r \in Reqs : ServiceInit(r)
  \/ \E r \in Reqs : ServiceSessionLock(r)
  \/ \E r \in Reqs : ServiceSessionCall(r)
  \/ \E r \in Reqs : \E reason \in Reasons : ServiceShutdownSwap(r, reason)
  \/ \E r \in Reqs : ServiceShutdownCleanup(r)
  \/ \E r \in Reqs : ServiceShutdownStop(r)
  \/ \E i \in 1..MaxReqs : OnStopRuns(i)
  \/ \E r \in Reqs : ServiceStats(r)

ControlSpec == ControlInit /\ [][ControlNext]_vars


\* One ClosePane call of either implementation, on any machine.
PaneInit ==
  /\ QueueInit
  /\ ManagerInit(TRUE, TRUE)
  /\ ReaperNew("go", 3, 1)
  /\ NewService(FALSE)
  /\ \E impl \in {"go", "ts"} :
       \E k \in [PaneKids -> [cmd : KidCommands, parent : {ShellPid, OtherParent},
                              alive : {TRUE}]] :
         PaneMachine(impl, k)
  /\ cfgs = <<DefaultConfig>>
  /\ ReapAllIdle(NoServers)

PaneNext ==
  \/ \E paneID \in {"", "%1"} : \E tmuxPath \in {"", "/usr/bin/tmux"} :
       ClosePaneStart(paneID, tmuxPath)
  \/ ClosePaneListPanes
  \/ ClosePaneChild
  \/ ClosePaneWait
  \/ ClosePaneLoopEnd
  \/ ClosePaneKillPane
  \/ ClosePaneLayout
  \/ \E k \in PaneKids : KidExits(k)

PaneSpec == PaneInit /\ [][PaneNext]_vars

\* Normalize applied, more than once, to any Config.
ConfigInit ==
  /\ QueueInit
  /\ ManagerInit(TRUE, TRUE)
  /\ ReaperNew("go", 3, 1)
  /\ NewService(FALSE)
  /\ PaneMachine("go", NoKids)
  /\ \E c \in Configs : cfgs = <<c>>
  /\ ReapAllIdle(NoServers)

ConfigNext == NormalizeCall

ConfigSpec == ConfigInit /\ [][ConfigNext]_vars

\* One manual reap on a machine whose processes come and go, with the
\* servers in any state.
ReapAllInit ==
  /\ QueueInit
  /\ ManagerInit(TRUE, TRUE)
  /\ ReaperNew("ts", 0, 0)
  /\ NewService(FALSE)
  /\ PaneMachine("go", NoKids)
  /\ cfgs = <<DefaultConfig>>
  /\ \E srv \in [ServerUrls -> [up : BOOLEAN, active : SUBSET SessionIds]] :
       ReapAllIdle(srv)

ReapAllNext ==
  \/ ReapAllStart
  \/ ReapAllFetch
  \/ ReapAllKill
  \/ ReapAllReturn
  \/ \E pid \in Pids : \E cmd \in ManualCommands : ProcStart(pid, cmd)
  \/ \E pid \in Pids : ProcExit(pid)

ReapAllSpec == ReapAllInit /\ [][ReapAllNext]_vars

\* The reaper alone, with the thresholds of any configuration file, on a
\* machine whose processes come and go.
ReaperInit ==
  /\ QueueInit
  /\ ManagerInit(TRUE, TRUE)
  /\ \E impl \in {"go", "ts"} : \E minChecks \in MinChecksChoices :
       \E grace \in GraceChoices : ReaperNew(impl, minChecks, grace)
  /\ Elsewhere

ReaperNext ==
  \/ ScanStart
  \/ \E outcome \in ReaperFetchOutcomes : \E active \in SUBSET SessionIds :
       ScanFetch(outcome, active)
  \/ ScanPid
  \/ ScanPrune
  \/ \E pid \in Pids : \E cmd \in Commands : ProcStart(pid, cmd)
  \/ \E pid \in Pids : ProcExit(pid)
  \/ ClockTick

ReaperSpec == ReaperInit /\ [][ReaperNext]_vars

(* ============================= properties =============================== *)
Spawning == {w \in Workers : wpc[w] = "inSpawn"}

\* The callers whose Enqueue took the lock and has not returned.
Waiting == {c \in Callers : cpc[c] \in {"notify", "processAsync", "wait"}}

\* Caller c takes the queue lock in this step.
Locks(c) == cpc[c] = "idle" /\ cpc'[c] # "idle"

\* The items of session s that are queued or in flight and not yet resolved.
Unresolved(s) ==
  {i \in Range(items) \cup ({inFlight} \ {None}) :
     heap[i].sessionID = s /\ ~heap[i].resolved}

\* The callers attached to one item before it was resolved that got a
\* result through their channel got the same one; an item is processed by
\* one worker; a first call that succeeds is the item's only call.
CoalescedCallersAgree ==
  /\ \A c, d \in Callers :
       (/\ cItem[c] # None /\ cItem[c] = cItem[d]
        /\ ~cLate[c] /\ ~cLate[d]
        /\ cVia[c] = "chan" /\ cVia[d] = "chan") => cres[c] = cres[d]
  /\ \A w, v \in Workers : (w # v /\ wItem[w] # None) => wItem[w] # wItem[v]
  /\ \A w \in Workers :
       (wLog[w] # <<>> /\ wLog[w][1].res = "ok") => Len(wLog[w]) = 1

\* An Enqueue that takes the lock while an unresolved item of its session
\* is queued or in flight attaches to it and creates no queueItem.
CoalescingStep ==
  \A c \in Callers : \A i \in ItemIds :
    (Locks(c) /\ i \in Unresolved(cSession'[c])) =>
       /\ nItems' = nItems
       /\ items' = items
       /\ cItem'[c] = i
       /\ heap'[i].waiters = Append(heap[i].waiters, c)

\* C1: Enqueue calls of one session that take the lock while the session's
\* item is queued or in flight and not yet resolved share that one item (no
\* new queueItem is created), the spawn function is called for it by one
\* worker only and once only when the first attempt succeeds, and all of
\* these callers that got a result through their channel got the same one.
Coalescing == [](CoalescedCallersAgree) /\ [][CoalescingStep]_vars

\* C1 witness: two callers of one item, the second attached while the item
\* was in flight, both got its successful result.
CoalescingWitness ==
  \E c, d \in Callers :
    /\ c # d /\ cItem[c] # None /\ cItem[c] = cItem[d]
    /\ cVia[c] = "chan" /\ cVia[d] = "chan"
    /\ cres[c].success /\ cres[d] = cres[c]

\* C2: at most one worker goroutine is inside the processing loop (a worker
\* whose deferred function has cleared isProcessing only has the drain
\* callback left), and at most one invocation of the spawn function is in
\* progress.
SingleSpawnInProgress ==
  /\ Cardinality({w \in Workers : wpc[w] \notin {"none", "drained"}}) <= 1
  /\ Cardinality(Spawning) <= 1

\* C2 witness: a spawn call is in progress while the goroutine of an earlier
\* worker has not ended yet.
SingleSpawnWitness ==
  \E w, v \in Workers : wpc[w] = "inSpawn" /\ wpc[v] = "drained"

\* C3: every Enqueue call returns (no Shutdown, no cancelled context, the
\* spawn function always returns, fair scheduling).
EnqueueReturns == \A c \in Callers : (cpc[c] # "idle") ~> (cpc[c] = "done")

\* C4: once Shutdown has taken the lock, no waiter is sent a success.
ShutdownDeliversFailure ==
  [][isShutdown =>
       \A c \in Callers :
         (ch'[c] # ch[c] /\ ch'[c] # <<>>) => ~ch'[c][Len(ch'[c])].success]_vars

\* C5: once Shutdown has returned, no invocation of the spawn function begins.
NoSpawnAfterShutdown ==
  [][sdpc = "done" => \A w \in Workers : wpc'[w] = "inSpawn" => wpc[w] = "inSpawn"]_vars

\* An Enqueue that takes the lock of a queue that is shut down returns
\* failure in that step and leaves the queue, the workers, the Shutdown
\* call, the channels and the gauge as they are.
RejectedEnqueueStep ==
  \A c \in Callers :
    (Locks(c) /\ isShutdown) =>
       /\ cpc'[c] = "done"
       /\ cres'[c] = Fail
       /\ UNCHANGED <<qvars, wvars, svars, ch, lastUpdate>>

\* A queue that is shut down is empty.
ShutdownQueueEmpty ==
  isShutdown => /\ items = <<>>
                /\ inFlight = None
                /\ \A s \in Sessions : pendingBySession[s] = None

\* C6: Enqueue on a queue that is shut down returns failure at once and
\* changes nothing: no queueItem is created, no worker is started, no
\* callback runs, and items[], inFlight and the dedup index stay empty.
RejectedEnqueue == [](ShutdownQueueEmpty) /\ [][RejectedEnqueueStep]_vars

\* C6 witness: an Enqueue was rejected while a worker was still in the spawn
\* call it had begun before the Shutdown.
RejectedEnqueueWitness ==
  \E c \in Callers : cVia[c] = "shutdown" /\ Spawning # {}

\* The positions of processLoop's stale branch and of processItem.
StalePath == {"staleResolve", "staleCleanup"}
ItemPath == {"check", "call", "inSpawn", "backoff", "resolve", "cleanup"}

\* The callers attached to item i before it was resolved.
TimelyCallers(i) == {c \in Callers : cItem[c] = i /\ ~cLate[c]}

StaleSkipState ==
  \A w \in Workers :
    wItem[w] # None =>
      /\ wStaleAtDeq[w] => wpc[w] \notin ItemPath
      /\ wpc[w] \in StalePath => wLog[w] = <<>>
      /\ wpc[w] = "staleCleanup" =>
           \A c \in TimelyCallers(wItem[w]) :
             /\ cpc[c] = "wait" => (ch[c] # <<>> /\ ~Head(ch[c]).success)
             /\ cVia[c] = "chan" => ~cres[c].success
      /\ (wpc[w] \in {"resolve", "cleanup"} /\ wLog[w] = <<>>) => isShutdown

\* Step part of C7: the staleness test sends the item to the stale
\* branch exactly when its age is over the threshold at the test; the stale
\* branch ends with the item out of inFlight and of the dedup index and the
\* worker back at the head of its loop.
StaleSkipStep ==
  \A w \in Workers :
    /\ (wpc[w] = "staleCheck" /\ wpc'[w] # "staleCheck") =>
         /\ heap[wItem[w]].age > StaleThreshold => wpc'[w] = "staleResolve"
         /\ heap[wItem[w]].age <= StaleThreshold => wpc'[w] = "check"
    /\ (wpc[w] = "staleCleanup" /\ wpc'[w] # "staleCleanup") =>
         /\ wpc'[w] = "loop"
         /\ inFlight' # wItem[w]
         /\ \A s \in Sessions : pendingBySession'[s] # wItem[w]
         /\ items' = items

Increasing(s) == \A k \in 1..(Len(s) - 1) : s[k] < s[k + 1]

\* The worker takes the head of the queue, which is older than all that stay
\* queued; a spawn call is for an item older than all queued ones; neither a
\* coalesced Enqueue nor the stale branch changes the queue.
FifoStep ==
  /\ \A w \in Workers :
       /\ (wItem[w] = None /\ wItem'[w] # None) =>
            /\ \A j \in Range(items') : wItem'[w] < j
            /\ items = <<wItem'[w]>> \o items'
       /\ (wpc[w] = "call" /\ wpc'[w] = "inSpawn") =>
            \A j \in Range(items) : wItem[w] < j
       /\ (wpc[w] \in StalePath /\ wpc'[w] # wpc[w]) => items' = items
  /\ \A c \in Callers :
       (Locks(c) /\ cpc'[c] = "wait") => items' = items

\* C9: queueItems are numbered in the order Enqueue created them; the queue
\* holds them in that order and the worker dequeues, and so first spawns,
\* an item before every item created after it; coalesced callers and stale
\* items do not change the order.
Fifo == [](Increasing(items)) /\ [][FifoStep]_vars

\* C9 witness: the second item created is in its spawn call after the
\* caller of the first item got its result.
FifoWitness ==
  \E w \in Workers : \E c \in Callers :
    /\ wpc[w] = "inSpawn" /\ wItem[w] = 2
    /\ cItem[c] = 1 /\ cVia[c] = "chan"

\* C10: OnQueueDrained is never invoked while items[] is non-empty or an item
\* is in flight.
DrainedOnlyWhenEmpty ==
  [][\A w \in Workers :
       (wpc[w] = "drained" /\ wpc'[w] = "none") => (items = <<>> /\ inFlight = None)]_vars

\* The result of the spawn calls made for the item of worker w.
ActualResult(w) ==
  IF wLog[w] # <<>> /\ wLog[w][Len(wLog[w])].res = "ok" THEN Ok(wItem[w]) ELSE Fail

\* Some caller of the item of worker w returned through <-ctx.Done().
HasCancelledCaller(w) == \E d \in Callers : cItem[d] = wItem[w] /\ cVia[d] = "ctx"

\* C11: when a caller of an item returned failure through its cancelled
\* context, every other caller coalesced on the item gets the result of the
\* spawn: once the worker has resolved the item (no Shutdown), each of them has
\* that result in its channel or has returned it.
OtherWaitersServed ==
  \A w \in Workers :
    (wpc[w] = "cleanup" /\ ~isShutdown /\ HasCancelledCaller(w)) =>
       \A c \in Callers :
         cItem[c] = wItem[w] =>
           /\ cpc[c] = "wait" => ch[c] = <<ActualResult(w)>>
           /\ cVia[c] = "chan" => cres[c] = ActualResult(w)

\* C12: between two spawn calls that succeed for one session id a tracked
\* session of that id was inserted and destroyed: no session id has two
\* successful spawn calls since its last tracked session was destroyed.
OneSpawnPerTrackedLifetime == \A s \in Sessions : okSpawns[s] <= 1

\* Caller c's OnSessionCreated call begins in this step.
Arrives(c) == mpc[c] = "idle" /\ mpc'[c] # "idle"

\* The manager is disabled or outside tmux, or the event is of another type,
\* or has no id, or has no parent id.
Refused(ev) ==
  \/ ~cfgEnabled
  \/ ~insideTmux
  \/ ev.type # "session.created"
  \/ ev.id = None
  \/ ev.parentId = ""

\* C13: OnSessionCreated for a refused event returns false in its first step
\* and leaves sessions, pending, the ticker, the queue, its callers and
\* workers, the gauges and the spawn and close counts unchanged.
RefusedEvent ==
  [][\A c \in Callers :
       (Arrives(c) /\ Refused(mEvent'[c])) =>
          /\ mpc'[c] = "done"
          /\ mRet'[c] = FALSE
          /\ UNCHANGED <<sessions, pending, ticker, qvars, cvars, wvars, svars,
                         ovars, closeCount>>]_vars

\* C13 witness: while the item of an accepted event is queued, an event for
\* the same session id without parent id has been refused.
RefusedEventWitness ==
  \E c, d \in Callers :
    /\ mpc[d] = "enqueue" /\ items # <<>>
    /\ mpc[c] = "done" /\ ~mRet[c]
    /\ mEvent[c] = [type |-> "session.created", id |-> mEvent[d].id, parentId |-> ""]

\* The OnSessionCreated calls that have marked session s pending and have not
\* removed it yet.
InProgress(s) == {c \in Callers : mpc[c] = "enqueue" /\ mEvent[c].id = s}

\* At most one call per session id is between marking it pending and
\* removing it, and pending holds exactly the ids of those calls.
OnePendingCall ==
  /\ \A s \in Sessions : Cardinality(InProgress(s)) <= 1
  /\ pending = {s \in Sessions : InProgress(s) # {}}

\* An event whose id is tracked or pending returns false in its first step,
\* without a call of Enqueue and without any change of state.
DuplicateStep ==
  \A c \in Callers :
    (/\ Arrives(c)
     /\ mEvent'[c].id # None
     /\ (sessions[mEvent'[c].id] # NoSession \/ mEvent'[c].id \in pending)) =>
       /\ mpc'[c] = "done"
       /\ mRet'[c] = FALSE
       /\ UNCHANGED <<sessions, pending, ticker, qvars, cvars, wvars, svars,
                      ovars, closeCount>>

\* C14: an event whose id is already in sessions or in pending is refused
\* without Enqueue and without change of state, so at most one
\* OnSessionCreated call per session id is between marking pending and
\* removing it.
DuplicateRejected == [](OnePendingCall) /\ [][DuplicateStep]_vars

\* C14 witness: a well-formed event has been refused while another call for
\* the same id waits in Enqueue, and the id is pending once.
DuplicateRejectedWitness ==
  \E c, d \in Callers :
    /\ mpc[d] = "enqueue" /\ cpc[d] = "wait"
    /\ mpc[c] = "done" /\ ~mRet[c] /\ cpc[c] = "idle"
    /\ mEvent[c] = mEvent[d]
    /\ pending = {mEvent[d].id}

\* Caller c's OnSessionCreated call returns from Enqueue and finishes in
\* this step.
Finishes(c) == mpc[c] = "enqueue" /\ mpc'[c] = "done"

DueForClose(st) ==
  {s \in Sessions :
     /\ sessions[s] # NoSession
     /\ \/ st[s] = "idle"
        \/ st[s] = "absent" /\ sessions[s].missing >= MissingGrace
        \/ sessions[s].created >= SessionTimeout}

\* The decision of a tick marks exactly the sessions due for close, with the
\* panes they have; when the tick ends it has removed exactly those, each
\* with that pane; ClosePane of a poller is invoked on the pane of the
\* session it has just removed.
PollTickStep ==
  \A p \in Pollers :
    /\ (ppc[p] = "decide" /\ ppc'[p] = "close") =>
         pDecided'[p] = {<<s, sessions[s].paneId>> : s \in DueForClose(pStatuses[p])}
    /\ (ppc[p] = "close" /\ ppc'[p] = "loop") => pRemoved[p] = pDecided[p]
    /\ (clpc[p] = "closePane" /\ clpc'[p] # "closePane") =>
         /\ <<clSession[p], clPane[p]>> \in pRemoved[p]
         /\ closeCount'[clPane[p]] = closeCount[clPane[p]] + 1

\* C16: after a successful status fetch, the sessions a poll tick removes are
\* exactly the tracked sessions whose entry is idle, or that have been
\* missing for the grace period, or that have reached the session timeout;
\* ClosePane is invoked once for each, with its recorded pane, and no pane is
\* closed twice.
PollTickDecision ==
  /\ [][PollTickStep]_vars
  /\ [](\A i \in ItemIds : closeCount[i] <= 1)

\* A tick whose status fetch fails ends at once: the pollLoop goroutine is
\* back at the head of its loop, and the step changes no tracked session,
\* closes no session and no pane, and leaves the ticker as it is.
FailedFetchStep ==
  \A p \in Pollers :
    (ppc[p] = "fetch" /\ ppc'[p] # "fetch" /\ pFetch'[p] = "failed") =>
       /\ ppc'[p] = "loop"
       /\ UNCHANGED <<sessions, ticker, clvars, closeCount, pToClose, pending>>

\* A pollLoop goroutine is in the deciding or closing part of pollOnce only
\* after a fetch that succeeded.
DecidesAfterFetch ==
  \A p \in Pollers :
    /\ ppc[p] = "decide" => pFetch[p] = "ok"
    /\ pFetch[p] = "failed" => (ppc[p] \in {"loop", "panic"} /\ pToClose[p] = {})

\* C17: a failed status fetch makes the poller skip the tick: no tracked
\* session's lastSeenAt or missingSince changes, no session is closed, no pane
\* is killed and the poller keeps running.
FailedFetchSkipsTick == [](DecidesAfterFetch) /\ [][FailedFetchStep]_vars

\* C17 witness: a tick was skipped after a failed fetch while a tracked
\* session had been missing for the grace period.
FailedFetchSkipsTickWitness ==
  \E p \in Pollers : \E s \in Sessions :
    /\ ppc[p] = "loop" /\ pFetch[p] = "failed"
    /\ sessions[s] # NoSession
    /\ sessions[s].missing >= MissingGrace
    /\ ticker

\* The attach target of a command line has the origin of this instance's
\* server URL (scheme added, localhost equal to 127.0.0.1).
SameOrigin(cmd) == areUrlsEqual(urlMatch(cmd), serverURL)

\* A step records a candidate for pid, or counts one more sighting of it.
RecordsCandidate(pid) == cands'[pid].count > cands[pid].count

\* C18: a scan never sends a signal to, and never records a candidate for,
\* a process whose attach target does not normalize to the origin of this
\* instance's server URL.
ReaperOwnership ==
  /\ [](\A cmd \in signalled : SameOrigin(cmd))
  /\ [][\A pid \in Pids :
          (RecordsCandidate(pid) /\ procs[pid] # "") => SameOrigin(procs[pid])]_vars

\* Every signal was sent to a pid that the scans had classified as zombie
\* at least reaperMinZombieChecks times in a row, the first of them at least
\* reaperGracePeriodMs before.
KillThresholds ==
  \A k \in killLog : k.streak >= rMinChecks /\ k.age >= rGrace

\* No signal was sent on the first sighting of a row.
NoSingleSightingKill == \A k \in killLog : k.streak >= 2

\* C19: a scan signals a pid only after at least reaperMinZombieChecks
\* zombie sightings in a row, the first at least reaperGracePeriodMs ago, and
\* never on a single sighting.
ReaperKillGate == KillThresholds /\ NoSingleSightingKill

\* The step of a scan that learns that its fetch failed ends the scan and
\* changes neither the candidates nor any process.
FailedScanStep ==
  (spc = "fetch" /\ sFetch' = "failed") =>
     /\ spc' = "idle"
     /\ UNCHANGED <<cands, procs, signalled, killLog, hStreak, hFirst>>

\* C20: a scan whose /session/status fetch fails sends no signal, creates
\* or increments no candidate and leaves the candidates as they were: the
\* loop over the processes runs only after a fetch that succeeded.
FailedScanFrame ==
  /\ [](spc = "loop" => sFetch = "ok")
  /\ [](sFetch = "failed" => spc = "idle")
  /\ [][FailedScanStep]_vars

\* C20 witness: a scan ended on a failed fetch while a process of this
\* instance was a candidate that one more zombie sighting would have killed.
FailedScanFrameWitness ==
  /\ spc = "idle" /\ sFetch = "failed"
  /\ \E pid \in Pids :
       /\ SameOrigin(procs[pid]) /\ OwnedByGo(procs[pid])
       /\ cands[pid].count >= 1
       /\ shouldKill([cands[pid] EXCEPT !.count = @ + 1], rClock)

\* No Enqueue call, no worker and no Shutdown call is between two of its steps.
Quiescent ==
  /\ \A c \in Callers : cpc[c] \in {"idle", "done"}
  /\ \A w \in Workers : wpc[w] = "none"
  /\ sdpc \in {"idle", "done"}

\* C28: in every quiescent state the last value handed to OnQueueUpdate is
\* len(items) plus one if an item is in flight.
QueueDepthGauge ==
  Quiescent => lastUpdate = pendingCountLocked(items, inFlight)

\* processLoop, between the head of its loop and the test that ends it: the
\* goroutine will reach the dequeue step again.
LiveWorker(w) == wpc[w] \notin {"none", "exitNotify", "defer", "drained"}

\* Enqueue has appended its item and has still to call processAsync.
AboutToStart(c) == cpc[c] \in {"notify", "processAsync"}

\* C29: while the queue is not shut down and items[] is non-empty, a worker
\* loop is live that will reach the dequeue step again, or an Enqueue call is
\* still about to call processAsync.
NoStrandedItem ==
  (~isShutdown /\ items # <<>>) =>
     \/ \E w \in Workers : LiveWorker(w)
     \/ \E c \in Callers : AboutToStart(c)

\* C30: no caller's waiter is attached to a queueItem whose waiters were
\* already taken for delivery, and every item in the dedup index
\* pendingBySession is still unresolved.
NoLostWaiter ==
  /\ \A c \in Callers : ~cLate[c]
  /\ \A s \in Sessions :
       pendingBySession[s] # None => ~heap[pendingBySession[s]].resolved

\* The panes of the sessions inserted into m.sessions so far.
InsertedPanes ==
  {cres[c].paneId : c \in {d \in Callers : mpc[d] = "done" /\ mRet[d] /\ Tracks(cres[d])}}

\* Cleanup has returned and no OnSessionCreated call is in progress.
CleanedUp == cupc = "done" /\ \A c \in Callers : mpc[c] \in {"idle", "done"}

\* C21: once Cleanup has returned and every OnSessionCreated call in
\* progress has returned, no session is tracked, ClosePane has been invoked
\* exactly once for the pane of every session that was ever tracked, and the
\* queue is shut down.
ShutdownComplete ==
  CleanedUp =>
     /\ \A s \in Sessions : sessions[s] = NoSession
     /\ \A i \in InsertedPanes : closeCount[i] = 1
     /\ isShutdown

(* ------------------------- control.Service ------------------------------ *)
\* The Init requests that arrived before request r.
EarlierInits(r) == {q \in 1..(r - 1) : reqKind[q] = "init"}

\* C22: once an Init has succeeded, every later Init request is answered
\* with an error, and the service never has created two managers.
InitHonoredOnce ==
  /\ \A r \in Reqs :
       (reqKind[r] = "init" /\ reqpc[r] = "done" /\ EarlierInits(r) # {})
         => reqResp[r].err
  /\ Cardinality({m \in Reqs : managers[m].made}) <= 1

\* A session request that found no manager returns.
NoManagerStep(r) ==
  reqpc[r] = "call" /\ reqpc'[r] = "done" /\ reqMgr[r] = NoManager
\* A Stats request is served before any Init.
StatsBeforeInit(r) ==
  /\ reqpc[r] = "idle" /\ reqpc'[r] = "done" /\ reqKind'[r] = "stats"
  /\ \A m \in Reqs : ~managers[m].made

\* C23: a session event that finds the service without a manager, before
\* Init or after a Shutdown, is answered accepted=false without an error and
\* creates no queue item and no pane; Stats before Init returns zeros.
WithoutManager ==
  [][\A r \in Reqs :
       /\ NoManagerStep(r) =>
            /\ reqResp'[r] = Resp("session", FALSE, ZeroGauges)
            /\ spawned' = spawned
            /\ gauges' = gauges
            /\ managers' = managers
       /\ StatsBeforeInit(r) =>
            /\ reqResp'[r].snap = ZeroGauges
            /\ ~reqResp'[r].err]_vars

\* Stats answered zeros before any Init, and a session event arrived after
\* a Shutdown had removed the manager and was refused.
WithoutManagerWitness ==
  /\ \E r \in Reqs : reqKind[r] = "stats" /\ reqpc[r] = "done" /\ EarlierInits(r) = {}
  /\ \E r \in Reqs :
       /\ reqKind[r] = "session" /\ reqpc[r] = "done" /\ reqMgr[r] = NoManager
       /\ \E q \in 1..(r - 1) :
            reqKind[q] = "shutdown" /\ reqMgr[q] # NoManager /\ reqpc[q] = "done"

RECURSIVE CleanupCalls(_)
CleanupCalls(ms) ==
  IF ms = {} THEN 0
  ELSE LET m == CHOOSE x \in ms : TRUE
       IN  managers[m].cleanups + CleanupCalls(ms \ {m})

\* C24: every Shutdown request returns ok and starts the onStop callback
\* once, with its own reason; Cleanup is called at most once in total, and
\* not at all while no Init has happened.
ShutdownIdempotent ==
  /\ \A r \in Reqs :
       (reqKind[r] = "shutdown" /\ reqpc[r] = "done") =>
         /\ reqResp[r].flag /\ ~reqResp[r].err
         /\ svOnStop =>
              /\ Cardinality({i \in 1..Len(onStops) : onStops[i].req = r}) = 1
              /\ \A i \in 1..Len(onStops) :
                   onStops[i].req = r => onStops[i].reason = reqReason[r]
  /\ CleanupCalls(Reqs) <= 1
  /\ (\A m \in Reqs : ~managers[m].made) => CleanupCalls(Reqs) = 0

(* -------------------- tmux.ClosePane / closeTmuxPane -------------------- *)
IsKillPane(x, outcome) == x.ev = "kill-pane" /\ x.info = outcome

\* C25: a child whose command contains "opencode" is sent SIGTERM and no
\* other child is sent anything; SIGKILL goes only to a child that was sent
\* SIGTERM and had not exited when the wait ended; kill-pane comes after the
\* loop over the children and once; ApplyLayout comes right after a
\* kill-pane that succeeded; the call returns true iff kill-pane succeeded.
ClosePaneOrder ==
  LET n == Len(cpLog) IN
  /\ \A i \in 1..n :
       LET x == cpLog[i] IN
       /\ x.ev = "ps" =>
            /\ \A j \in 1..n : (cpLog[j].ev = "ps" /\ cpLog[j].pid = x.pid) => j = i
            /\ IF Contains(x.info, "opencode")
                 THEN i < n /\ cpLog[i + 1] = Did("SIGTERM", x.pid, "")
                 ELSE i < n => cpLog[i + 1].ev \notin {"SIGTERM", "SIGKILL"}
       /\ x.ev = "SIGTERM" =>
            /\ i > 1 /\ cpLog[i - 1].ev = "ps" /\ cpLog[i - 1].pid = x.pid
            /\ Contains(cpLog[i - 1].info, "opencode")
       /\ x.ev = "SIGKILL" =>
            /\ i > 1 /\ cpLog[i - 1] = Did("SIGTERM", x.pid, "")
            /\ x.info = "alive"
       /\ x.ev = "kill-pane" =>
            /\ cpTodo = <<>> /\ cpChild = NoChild
            /\ \A j \in 1..n : cpLog[j].ev \in {"ps", "SIGTERM", "SIGKILL"} => j < i
            /\ \A j \in 1..n : cpLog[j].ev = "kill-pane" => j = i
       /\ x.ev = "layout" =>
            i = n /\ i > 1 /\ IsKillPane(cpLog[i - 1], "ok")
  /\ cppc = "done" =>
       /\ cpRet \in BOOLEAN
       /\ cpRet <=> \E i \in 1..n : IsKillPane(cpLog[i], "ok")
       /\ cpRet => cpLog[n].ev = "layout"

\* A call that returned true after one child needed SIGKILL and the other
\* exited on SIGTERM.
ClosePaneOrderWitness ==
  /\ cppc = "done" /\ cpRet = TRUE
  /\ \E a, b \in PaneKids :
       /\ a # b
       /\ \E i \in 1..Len(cpLog) : cpLog[i].ev = "SIGKILL" /\ cpLog[i].pid = a
       /\ \E i \in 1..Len(cpLog) : cpLog[i].ev = "SIGTERM" /\ cpLog[i].pid = b
       /\ \A i \in 1..Len(cpLog) : ~(cpLog[i].ev = "SIGKILL" /\ cpLog[i].pid = b)

(* ---------------------------- config.Config ----------------------------- *)
\* The value Normalize must give a field: the value itself inside lo..hi,
\* the default otherwise.
Kept(x, lo, hi, default) == IF x \in lo..hi THEN x ELSE default

\* C26: after Normalize every numeric field is in its range and the layout
\* is not empty; a field that was in its range keeps its value and one that
\* was not gets its default; a second Normalize changes nothing.
NormalizeRanges ==
  \A i \in 2..Len(cfgs) :
    LET in == cfgs[i - 1]
        out == cfgs[i]
    IN  /\ out.MainPaneSize \in 20..80
        /\ out.SpawnDelayMs \in 50..2000
        /\ out.MaxRetryAttempts \in 0..5
        /\ out.LayoutDebounceMs \in 50..1000
        /\ out.MaxAgentsPerColumn \in 1..10
        /\ out.MaxPorts \in 1..100
        /\ out.Layout # ""
        /\ out.MainPaneSize = Kept(in.MainPaneSize, 20, 80, 60)
        /\ out.SpawnDelayMs = Kept(in.SpawnDelayMs, 50, 2000, 300)
        /\ out.MaxRetryAttempts = Kept(in.MaxRetryAttempts, 0, 5, 2)
        /\ out.LayoutDebounceMs = Kept(in.LayoutDebounceMs, 50, 1000, 150)
        /\ out.MaxAgentsPerColumn = Kept(in.MaxAgentsPerColumn, 1, 10, 3)
        /\ out.MaxPorts = Kept(in.MaxPorts, 1, 100, 10)
        /\ in.Layout # "" => out.Layout = in.Layout
        /\ i > 2 => out = in

\* Normalize ran twice on a Config with mainPaneSize 81 and spawnDelayMs 50.
NormalizeRangesWitness ==
  /\ Len(cfgs) = 3
  /\ cfgs[1].MainPaneSize = 81 /\ cfgs[2].MainPaneSize = 60
  /\ cfgs[1].SpawnDelayMs = 50 /\ cfgs[2].SpawnDelayMs = 50
  /\ cfgs[1].Layout = "" /\ cfgs[3].Layout = "main-vertical"

(* ------------------------ ZombieReaper.reapAll -------------------------- *)
\* The client a command line belongs to.
ClientOf(cmd) == CHOOSE c \in AttachClients : c.cmd = cmd
\* The client's server is known and either does not answer or does not
\* list the client's session as active.
Orphaned(cmd) ==
  LET c == ClientOf(cmd)
  IN  /\ c.host # ""
      /\ ~servers[c.host].up \/ c.session \notin servers[c.host].active

\* C27: the manual reap signals, of the attach processes it listed, exactly
\* those whose session is not active on their own server or whose server
\* does not answer; it signals no other process and none whose server is
\* unknown.
ReapAllExact ==
  rapc = "done" =>
    /\ \A k \in raKills : k.hit \in {"", k.entry.command}
    /\ {k.pid : k \in raKills} =
         {raProcs[i].pid : i \in {j \in 1..Len(raProcs) : Orphaned(raProcs[j].command)}}

(* ------------------------- queue: later claims -------------------------- *)
\* The items the queue holds: q.items and q.inFlight.
Held == Range(items) \cup (IF inFlight # None THEN {inFlight} ELSE {})

\* C35: a session has at most one item among q.items and q.inFlight, the
\* keys of the dedup index are exactly the sessions of those items, at most
\* one item is being processed, and PendingCount() is the number of items
\* held.
QueueItemUniqueness ==
  /\ \A i, j \in 1..Len(items) : items[i] = items[j] => i = j
  /\ inFlight \notin Range(items)
  /\ \A a, b \in Held : heap[a].sessionID = heap[b].sessionID => a = b
  /\ {s \in Sessions : pendingBySession[s] # None} = {heap[a].sessionID : a \in Held}
  /\ \A s \in Sessions : pendingBySession[s] # None => heap[pendingBySession[s]].sessionID = s
  /\ Cardinality({w \in Workers : wItem[w] # None}) <= 1
  /\ pendingCountLocked(items, inFlight) = Cardinality(Held)

\* One item is being spawned while another, of another session, waits.
QueueItemUniquenessWitness ==
  /\ inFlight # None /\ Len(items) = 1
  /\ heap[inFlight].sessionID # heap[items[1]].sessionID
  /\ \E w \in Workers : wItem[w] = inFlight

\* C36: a waiter channel is sent at most one result, which is when it is
\* closed, and a Shutdown call after the first resolves nothing and calls
\* no callback.
ResolvedOnce ==
  [][/\ \A c \in Callers : sent'[c] <= 1 /\ Len(ch'[c]) <= 1
     /\ sdAgain' # sdAgain =>
          UNCHANGED <<sent, ch, heap, toResolve, lastUpdate, isShutdown>>]_vars

\* Shutdown failed one waiter while the worker went on to resolve the item
\* it was spawning, and Shutdown was called again.
ResolvedOnceWitness ==
  /\ sdAgain = 1
  /\ sdpc = "done"
  /\ \E c \in Callers : sent[c] = 1 /\ cVia[c] = "chan" /\ cres[c] = Fail
  /\ \E w \in Workers : wpc[w] = "cleanup"

(* ------------------------ manager: later claims ------------------------- *)
\* C31: the poll loop never evaluates m.ticker while it is nil: stopping the
\* poller when the last tracked session is closed, from a CloseSession call
\* or from within a poll tick, faults no pollLoop goroutine.
PollerStopsWithoutFault == ~Panicked

\* The pollLoop goroutines that have been started and have not ended.
LivePollers == {p \in Pollers : ppc[p] \notin {"none", "panic"}}

\* The pollLoop goroutines inside pollOnce.
InPollOnce == {p \in Pollers : ppc[p] \in {"fetch", "decide", "close"}}

\* C34: at most one pollLoop goroutine is live for the Manager, and no two
\* executions of pollOnce overlap.
PollerUniqueness ==
  /\ Cardinality(LivePollers) <= 1
  /\ Cardinality(InPollOnce) <= 1

\* Pane i is recorded in m.sessions, or a CloseSession call has taken it out
\* of m.sessions to close it.
Accounted(i) ==
  \/ \E s \in Sessions : sessions[s] # NoSession /\ sessions[s].paneId = i
  \/ \E k \in Closers : clpc[k] # "idle" /\ clPane[k] = i
  \/ closeCount[i] > 0

\* Worker w's last spawn call succeeded: the pane of its item exists.
Spawned(w) == wLog[w] # <<>> /\ wLog[w][Len(wLog[w])].res = "ok"

\* C33: the pane of a successful spawn call is recorded in m.sessions by the
\* OnSessionCreated call that requested it: once the worker has resolved
\* the item and that call has returned, the call has returned true and the
\* pane is tracked or has been closed by CloseSession.
NoOrphanPane ==
  \A w \in Workers : \A c \in Callers :
    (/\ wpc[w] = "cleanup" /\ Spawned(w)
     /\ cItem[c] = wItem[w] /\ mpc[c] = "done")
    => mRet[c] /\ Accounted(wItem[w])

\* A worker's drain callback runs in this step.
DrainCallback == \E w \in Workers : wpc[w] = "drained" /\ wpc'[w] = "none"

\* The layouts the timers have applied or are still to apply.
LayoutsOwed == layoutRuns + ltDue + Len(ltArmed)

\* C37: the drain callback applies no layout itself: it cancels the pending
\* timer and arms a new one, so that at most one timer is armed.  A callback
\* that comes while a timer is armed, less than the debounce after the one
\* before, adds no layout to those owed and one that starts a burst adds
\* exactly one; a timer expires only when the debounce has passed since the
\* last callback, and every ApplyLayout is that of one expired timer.
DebouncedLayout ==
  [][/\ Len(ltArmed') <= 1
     /\ DrainCallback =>
          /\ layoutRuns' = layoutRuns /\ ltDue' = ltDue
          /\ ltArmed' = <<0>> /\ ltCur'
          /\ LayoutsOwed' = IF ltArmed = <<>> THEN LayoutsOwed + 1 ELSE LayoutsOwed
     /\ ~DrainCallback => LayoutsOwed' = LayoutsOwed
     /\ ltDue' > ltDue => ltArmed = <<LayoutDebounce>> /\ ltArmed' = <<>>
     /\ layoutRuns' # layoutRuns => layoutRuns' = layoutRuns + 1 /\ ltDue' = ltDue - 1]_vars

\* A burst of two drain callbacks has had its one layout.
DebouncedLayoutWitness ==
  /\ ltBurst = 2
  /\ layoutRuns = 1 /\ ltDue = 0 /\ ltArmed = <<>>

\* C32: once Cleanup has stopped the layout timer no timer is armed again,
\* and once Cleanup has returned no timer function applies the layout.
NoLateLayout ==
  [][/\ cupc' # "idle" => ltArmed' = <<>>
     /\ cupc = "done" => layoutRuns' = layoutRuns]_vars

\* Poller p's tick decides in this step, with the status map it fetched.
Decides(p) == ppc[p] = "decide" /\ ppc'[p] = "close"

\* Poller p's tick ends in this step on a failed fetch.
FetchFails(p) == ppc[p] = "fetch" /\ ppc'[p] = "loop"

LayoutAfterFailedKill ==
  [][\A k \in Closers :
       (/\ clpc[k] = "inClosePane" /\ clpc'[k] = "stopTicker"
        /\ \E i \in 1..Len(cpLog) : IsKillPane(cpLog[i], "failed"))
       => /\ \E j \in 1..Len(cpLog) : cpLog[j].ev = "layout"
          /\ sessions[clSession[k]] = NoSession]_vars

\* C40: when the status polls keep failing because the host is lost, the
\* manager shuts down and every tracked pane is eventually closed: a
\* session that is tracked is eventually not tracked.
HostLossShutdown ==
  \A s \in Sessions : (sessions[s] # NoSession) ~> (sessions[s] = NoSession)

====
